--------------------------- MODULE BuildScheduler ---------------------------
(***************************************************************************)
(* The parallel build scheduler of internal/daemon/scheduler.go, used by   *)
(* `grpm emerge --jobs` (internal/cli/emerge.go, buildPackagesParallel).   *)
(*                                                                         *)
(* Goroutines: the caller of Start ("main"), MaxWorkers workers and one    *)
(* result collector.  They share the status of every task (one mutex per   *)
(* task), two bounded channels (readyQueue, results), hasFailed and a      *)
(* context.  One action is one critical section, one channel operation or  *)
(* one atomic access, so every interleaving the Go scheduler allows at     *)
(* those points is a behaviour.                                            *)
(*                                                                         *)
(* AddTask and AddDependency run on the caller's goroutine before Start;   *)
(* Start is called once per scheduler, as buildPackagesParallel does (it   *)
(* closes readyQueue, so a second call could not work).                    *)
(***************************************************************************)
EXTENDS Integers, Sequences, FiniteSets

CONSTANTS TaskIDs,        \* identities of build tasks ("name-version")
          Workers,        \* the MaxWorkers worker goroutines
          FailureModes,   \* the values of SchedulerConfig.FailureMode tried
          AllowedEdges,   \* pairs <<dependent, dependency>> the caller may add
          MaxRepeats,     \* bound: how often one pair may be added
          MaxEdges,       \* bound: how many AddDependency calls altogether
          MayFail,        \* tasks whose BuildFunc may return an error
          Interrupts,     \* what may happen during Start: "ctx" (the caller's
                          \* context ends), "Stop" (Stop is called)
          NoTask

ASSUME TaskIDsAssumption  == IsFiniteSet(TaskIDs) /\ NoTask \notin TaskIDs
ASSUME WorkersAssumption  == IsFiniteSet(Workers) /\ Workers # {}
ASSUME ModesAssumption    == FailureModes \subseteq {"Stop", "Continue"}
ASSUME EdgesAssumption    == AllowedEdges \subseteq TaskIDs \X TaskIDs

MaxWorkers == Cardinality(Workers)
QueueCap   == MaxWorkers * 2      \* capacity of readyQueue and of results

Statuses == {"Pending", "Waiting", "Running", "Completed", "Failed", "Canceled"}

VARIABLES
    failureMode,   \* config.FailureMode
    tasks,         \* ids of the tasks map
    deps,          \* task -> Dependencies slice
    dependents,    \* task -> Dependents slice
    status,        \* task -> status
    main,          \* control point of the goroutine in Start
    todo,          \* tasks the loop of queueReadyTasks has not reached yet
    sending,       \* task main is sending to readyQueue
    readyQueue, results,
    wpc, wtask,    \* per worker: control point and the task it holds
    cpc, ctask,    \* the collector: control point and the task it handles
    pendingCount,
    cancelTodo,    \* tasks the loop of cancelRemainingTasks has not reached
    cancelRead,    \* task whose status that loop has read, about to write
    cqueue,        \* dependents the loop of queueReadyDependents has left
    completedSet, hasFailed, failedTask,
    ctxDone,       \* the context of workers and collector is done
    stopCalled,    \* the context that Stop cancels is done
    outcome,       \* what collectResults returned
    \* History: what really happened, for the properties only.
    builds,        \* task -> how often its BuildFunc was entered
    succeeded,     \* tasks whose BuildFunc returned nil
    delivered,     \* tasks whose result the collector has dealt with
    dropped        \* tasks discarded because readyQueue was full

setupVars  == <<failureMode, tasks, deps, dependents>>
mainVars   == <<main, todo, sending>>
workerVars == <<wpc, wtask>>
collVars   == <<cpc, ctask, pendingCount, cancelTodo, cancelRead, cqueue,
                completedSet, hasFailed, failedTask, outcome>>
ctxVars    == <<ctxDone, stopCalled>>
history    == <<builds, succeeded, delivered, dropped>>
vars == <<setupVars, status, mainVars, readyQueue, results, workerVars,
          collVars, ctxVars, history>>

Members(s) == {s[i] : i \in 1..Len(s)}

(***************************************************************************)
(* NewBuildScheduler, AddTask, AddDependency.                              *)
(***************************************************************************)
Init ==
    /\ failureMode \in FailureModes
    /\ tasks = {}
    /\ deps = [t \in TaskIDs |-> <<>>]
    /\ dependents = [t \in TaskIDs |-> <<>>]
    /\ status = [t \in TaskIDs |-> "Pending"]
    /\ main = "setup" /\ todo = {} /\ sending = NoTask
    /\ readyQueue = <<>> /\ results = <<>>
    /\ wpc = [w \in Workers |-> "none"]
    /\ wtask = [w \in Workers |-> NoTask]
    /\ cpc = "none" /\ ctask = NoTask /\ pendingCount = 0
    /\ cancelTodo = {} /\ cancelRead = NoTask /\ cqueue = <<>>
    /\ completedSet = {} /\ hasFailed = FALSE /\ failedTask = NoTask
    /\ outcome = "none"
    /\ ctxDone = FALSE /\ stopCalled = FALSE
    /\ builds = [t \in TaskIDs |-> 0]
    /\ succeeded = {} /\ delivered = {} /\ dropped = {}

\* A task that exists already is refused: AddTask changes nothing then.
AddTask(t) ==
    /\ main = "setup"
    /\ t \notin tasks
    /\ tasks' = tasks \union {t}
    /\ UNCHANGED <<failureMode, deps, dependents, status, mainVars, readyQueue,
                   results, workerVars, collVars, ctxVars, history>>

Repeats(t, d) == Cardinality({i \in 1..Len(deps[t]) : deps[t][i] = d})

EdgeCount == Cardinality(UNION {{<<t, i>> : i \in 1..Len(deps[t])} : t \in tasks})

\* Both tasks must exist; nothing keeps the same pair from being added again
\* (emerge calls this once per element of Package.Deps, and a package named
\* in DEPEND and in RDEPEND occurs there twice).
AddDependency(t, d) ==
    /\ main = "setup"
    /\ t \in tasks /\ d \in tasks
    /\ <<t, d>> \in AllowedEdges
    /\ Repeats(t, d) < MaxRepeats /\ EdgeCount < MaxEdges      \* bounds
    /\ deps' = [deps EXCEPT ![t] = Append(@, d)]
    /\ dependents' = [dependents EXCEPT ![d] = Append(@, t)]
    /\ UNCHANGED <<failureMode, tasks, status, mainVars, readyQueue, results,
                   workerVars, collVars, ctxVars, history>>

(***************************************************************************)
(* Start.  topologicalSort only decides whether Start goes on: the order   *)
(* it returns is stored and shown, nothing else.  Module KahnSort models   *)
(* the algorithm and shows that it fails exactly when there is a cycle.    *)
(***************************************************************************)
\* Some tasks each depend on one of them.
topologicalSortFails ==
    \E S \in (SUBSET tasks) \ {{}} : \A t \in S : Members(deps[t]) \cap S # {}

StartCycle ==
    /\ main = "setup"
    /\ topologicalSortFails
    /\ main' = "returned" /\ outcome' = "cycle"
    /\ UNCHANGED <<setupVars, status, todo, sending, readyQueue, results,
                   workerVars, cpc, ctask, pendingCount, cancelTodo,
                   cancelRead, cqueue, completedSet, hasFailed, failedTask,
                   ctxVars, history>>

\* Mutant: pendingCount counts only the tasks that are ready at once.
Start_CountsReady ==
    /\ main = "setup"
    /\ ~topologicalSortFails
    /\ main' = "queueing" /\ todo' = tasks
    /\ wpc' = [w \in Workers |-> "select"]
    /\ cpc' = "select"
    /\ pendingCount' = Cardinality({t \in tasks : deps[t] = <<>>})
    /\ UNCHANGED <<setupVars, status, sending, readyQueue, results, wtask,
                   ctask, cancelTodo, cancelRead, cqueue, completedSet,
                   hasFailed, failedTask, outcome, ctxVars, history>>

\* Start up to the call of queueReadyTasks: the goroutines exist from here on.
Start ==
    /\ main = "setup"
    /\ ~topologicalSortFails
    /\ main' = "queueing" /\ todo' = tasks
    /\ wpc' = [w \in Workers |-> "select"]
    /\ cpc' = "select" /\ pendingCount' = Cardinality(tasks)
    /\ UNCHANGED <<setupVars, status, sending, readyQueue, results, wtask,
                   ctask, cancelTodo, cancelRead, cqueue, completedSet,
                   hasFailed, failedTask, outcome, ctxVars, history>>

\* One turn of the loop of queueReadyTasks, which visits a Go map: any order.
\* Workers and collector run meanwhile.
QueueReadyTask(t) ==
    /\ main = "queueing" /\ sending = NoTask
    /\ t \in todo
    /\ todo' = todo \ {t}
    /\ status' = [status EXCEPT ![t] = "Waiting"]
    /\ sending' = IF deps[t] = <<>> THEN t ELSE NoTask
    /\ UNCHANGED <<setupVars, main, readyQueue, results, workerVars, collVars,
                   ctxVars, history>>

\* s.readyQueue <- task: blocks while the channel is full.
SendReady ==
    /\ sending # NoTask
    /\ Len(readyQueue) < QueueCap
    /\ readyQueue' = Append(readyQueue, sending)
    /\ sending' = NoTask
    /\ UNCHANGED <<setupVars, status, main, todo, results, workerVars,
                   collVars, ctxVars, history>>

\* The loop is over and main takes the collector's answer from `done`; then
\* it cancels the context and closes readyQueue.
FinishStart ==
    /\ main = "queueing" /\ todo = {} /\ sending = NoTask
    /\ cpc = "done"
    /\ main' = "closing" /\ ctxDone' = TRUE
    /\ UNCHANGED <<setupVars, status, todo, sending, readyQueue, results,
                   workerVars, collVars, stopCalled, history>>

\* workerWg.Wait() and return.
ReturnStart ==
    /\ main = "closing"
    /\ \A w \in Workers : wpc[w] = "exited"
    /\ main' = "returned"
    /\ UNCHANGED <<setupVars, status, todo, sending, readyQueue, results,
                   workerVars, collVars, ctxVars, history>>

\* Stop cancels the context made by NewBuildScheduler.  Start derives its own
\* from its argument and stores only that one in s.ctx, so nobody watches it.
Stop ==
    /\ "Stop" \in Interrupts
    /\ main \notin {"setup", "returned"} /\ ~stopCalled
    /\ stopCalled' = TRUE
    /\ UNCHANGED <<setupVars, status, mainVars, readyQueue, results,
                   workerVars, collVars, ctxDone, history>>

\* The context given to Start ends.
CancelCtx ==
    /\ "ctx" \in Interrupts
    /\ main \notin {"setup", "returned"} /\ ~ctxDone
    /\ ctxDone' = TRUE
    /\ UNCHANGED <<setupVars, status, mainVars, readyQueue, results,
                   workerVars, collVars, stopCalled, history>>

(***************************************************************************)
(* worker and executeBuild.                                                *)
(***************************************************************************)
\* select: the context is done, or the channel is closed and drained.
WorkerExit(w) ==
    /\ wpc[w] = "select"
    /\ ctxDone \/ (main = "closing" /\ readyQueue = <<>>)
    /\ wpc' = [wpc EXCEPT ![w] = "exited"]
    /\ UNCHANGED <<setupVars, status, mainVars, readyQueue, results, wtask,
                   collVars, ctxVars, history>>

\* select: a task is ready.  With both cases ready Go picks either one.
WorkerReceive(w) ==
    /\ wpc[w] = "select"
    /\ readyQueue # <<>>
    /\ wtask' = [wtask EXCEPT ![w] = Head(readyQueue)]
    /\ readyQueue' = Tail(readyQueue)
    /\ wpc' = [wpc EXCEPT ![w] = "received"]
    /\ UNCHANGED <<setupVars, status, mainVars, results, collVars, ctxVars,
                   history>>

\* Mutant: a refused task is canceled but no result is sent for it.
WorkerRefuse_NoResult(w) ==
    /\ wpc[w] = "received"
    /\ failureMode = "Stop" /\ hasFailed
    /\ status' = [status EXCEPT ![wtask[w]] = "Canceled"]
    /\ wpc' = [wpc EXCEPT ![w] = "select"]
    /\ wtask' = [wtask EXCEPT ![w] = NoTask]
    /\ UNCHANGED <<setupVars, mainVars, readyQueue, results, collVars,
                   ctxVars, history>>

\* Mutant: a failure makes the workers refuse tasks in either mode.
WorkerRefuse_AnyMode(w) ==
    /\ wpc[w] = "received"
    /\ hasFailed
    /\ status' = [status EXCEPT ![wtask[w]] = "Canceled"]
    /\ wpc' = [wpc EXCEPT ![w] = "sending"]
    /\ UNCHANGED <<setupVars, mainVars, readyQueue, results, wtask, collVars,
                   ctxVars, history>>

\* In Stop mode a task received after the first failure is not built.
WorkerRefuse(w) ==
    /\ wpc[w] = "received"
    /\ failureMode = "Stop" /\ hasFailed
    /\ status' = [status EXCEPT ![wtask[w]] = "Canceled"]
    /\ wpc' = [wpc EXCEPT ![w] = "sending"]
    /\ UNCHANGED <<setupVars, mainVars, readyQueue, results, wtask, collVars,
                   ctxVars, history>>

\* Mutant: the worker asks whether its own task failed, not whether any did.
WorkerAccept_OwnFailure(w) ==
    /\ wpc[w] = "received"
    /\ ~(failureMode = "Stop" /\ failedTask = wtask[w])
    /\ wpc' = [wpc EXCEPT ![w] = "accepted"]
    /\ UNCHANGED <<setupVars, status, mainVars, readyQueue, results, wtask,
                   collVars, ctxVars, history>>

WorkerAccept(w) ==
    /\ wpc[w] = "received"
    /\ ~(failureMode = "Stop" /\ hasFailed)
    /\ wpc' = [wpc EXCEPT ![w] = "accepted"]
    /\ UNCHANGED <<setupVars, status, mainVars, readyQueue, results, wtask,
                   collVars, ctxVars, history>>

BeginBuild(w) ==
    /\ wpc[w] = "accepted"
    /\ status' = [status EXCEPT ![wtask[w]] = "Running"]
    /\ wpc' = [wpc EXCEPT ![w] = "building"]
    /\ builds' = [builds EXCEPT ![wtask[w]] = @ + 1]
    /\ UNCHANGED <<setupVars, mainVars, readyQueue, results, wtask, collVars,
                   ctxVars, succeeded, delivered, dropped>>

\* BuildFunc returns.  A context that is done by now decides over its error.
EndBuild(w, err) ==
    /\ wpc[w] = "building"
    /\ err => (wtask[w] \in MayFail \/ ctxDone)
    /\ status' = [status EXCEPT ![wtask[w]] =
                    IF ctxDone THEN "Canceled"
                    ELSE IF err THEN "Failed" ELSE "Completed"]
    /\ succeeded' = IF err THEN succeeded ELSE succeeded \union {wtask[w]}
    /\ wpc' = [wpc EXCEPT ![w] = "sending"]
    /\ UNCHANGED <<setupVars, mainVars, readyQueue, results, wtask, collVars,
                   ctxVars, builds, delivered, dropped>>

\* s.results <- task: blocks while the channel is full.
SendResult(w) ==
    /\ wpc[w] = "sending"
    /\ Len(results) < QueueCap
    /\ results' = Append(results, wtask[w])
    /\ wpc' = [wpc EXCEPT ![w] = "select"]
    /\ wtask' = [wtask EXCEPT ![w] = NoTask]
    /\ UNCHANGED <<setupVars, status, mainVars, readyQueue, collVars, ctxVars,
                   history>>

(***************************************************************************)
(* collectResults, cancelRemainingTasks and queueReadyDependents.          *)
(***************************************************************************)
\* The loop condition fails: every awaited result has arrived.
CollectEnd ==
    /\ cpc = "select" /\ pendingCount = 0
    /\ cpc' = "done"
    /\ outcome' = IF hasFailed THEN "failed" ELSE "ok"
    /\ UNCHANGED <<setupVars, status, mainVars, readyQueue, results,
                   workerVars, ctask, pendingCount, cancelTodo, cancelRead,
                   cqueue, completedSet, hasFailed, failedTask, ctxVars,
                   history>>

CollectCanceled ==
    /\ cpc = "select" /\ pendingCount > 0
    /\ ctxDone
    /\ cpc' = "done" /\ outcome' = "canceled"
    /\ UNCHANGED <<setupVars, status, mainVars, readyQueue, results,
                   workerVars, ctask, pendingCount, cancelTodo, cancelRead,
                   cqueue, completedSet, hasFailed, failedTask, ctxVars,
                   history>>

CollectReceive ==
    /\ cpc = "select" /\ pendingCount > 0
    /\ results # <<>>
    /\ ctask' = Head(results) /\ results' = Tail(results)
    /\ pendingCount' = pendingCount - 1
    /\ cpc' = "failed?"
    /\ UNCHANGED <<setupVars, status, mainVars, readyQueue, workerVars,
                   cancelTodo, cancelRead, cqueue, completedSet, hasFailed,
                   failedTask, outcome, ctxVars, history>>

\* First GetStatus: a failure is recorded, the first one in Stop mode also
\* cancels what has not started.
CollectFailure ==
    /\ cpc = "failed?"
    /\ status[ctask] = "Failed"
    /\ failedTask' = IF failedTask = NoTask THEN ctask ELSE failedTask
    /\ hasFailed' = TRUE
    /\ IF ~hasFailed /\ failureMode = "Stop"
         THEN cpc' = "canceling" /\ cancelTodo' = tasks
         ELSE cpc' = "completed?" /\ UNCHANGED cancelTodo
    /\ UNCHANGED <<setupVars, status, mainVars, readyQueue, results,
                   workerVars, ctask, pendingCount, cancelRead, cqueue,
                   completedSet, outcome, ctxVars, history>>

CollectNoFailure ==
    /\ cpc = "failed?"
    /\ status[ctask] # "Failed"
    /\ cpc' = "completed?"
    /\ UNCHANGED <<setupVars, status, mainVars, readyQueue, results,
                   workerVars, ctask, pendingCount, cancelTodo, cancelRead,
                   cqueue, completedSet, hasFailed, failedTask, outcome,
                   ctxVars, history>>

\* cancelRemainingTasks reads a status in one critical section ...
CancelRead(t) ==
    /\ cpc = "canceling" /\ cancelRead = NoTask
    /\ t \in cancelTodo
    /\ cancelTodo' = cancelTodo \ {t}
    /\ cancelRead' = IF status[t] \in {"Pending", "Waiting"} THEN t ELSE NoTask
    /\ UNCHANGED <<setupVars, status, mainVars, readyQueue, results,
                   workerVars, cpc, ctask, pendingCount, cqueue, completedSet,
                   hasFailed, failedTask, outcome, ctxVars, history>>

\* ... and writes it in another.
CancelWrite ==
    /\ cancelRead # NoTask
    /\ status' = [status EXCEPT ![cancelRead] = "Canceled"]
    /\ cancelRead' = NoTask
    /\ UNCHANGED <<setupVars, mainVars, readyQueue, results, workerVars, cpc,
                   ctask, pendingCount, cancelTodo, cqueue, completedSet,
                   hasFailed, failedTask, outcome, ctxVars, history>>

CancelEnd ==
    /\ cpc = "canceling" /\ cancelRead = NoTask /\ cancelTodo = {}
    /\ cpc' = "completed?"
    /\ UNCHANGED <<setupVars, status, mainVars, readyQueue, results,
                   workerVars, ctask, pendingCount, cancelTodo, cancelRead,
                   cqueue, completedSet, hasFailed, failedTask, outcome,
                   ctxVars, history>>

\* Second GetStatus.
CollectCompleted ==
    /\ cpc = "completed?"
    /\ status[ctask] = "Completed"
    /\ completedSet' = completedSet \union {ctask}
    /\ cqueue' = dependents[ctask]
    /\ cpc' = "dependents"
    /\ UNCHANGED <<setupVars, status, mainVars, readyQueue, results,
                   workerVars, ctask, pendingCount, cancelTodo, cancelRead,
                   hasFailed, failedTask, outcome, ctxVars, history>>

\* The result is dealt with; collectResults returns to its select.
Deliver ==
    /\ cpc' = "select" /\ ctask' = NoTask
    /\ delivered' = delivered \union {ctask}

CollectNotCompleted ==
    /\ cpc = "completed?"
    /\ status[ctask] # "Completed"
    /\ Deliver
    /\ UNCHANGED <<setupVars, status, mainVars, readyQueue, results,
                   workerVars, pendingCount, cancelTodo, cancelRead, cqueue,
                   completedSet, hasFailed, failedTask, outcome, ctxVars,
                   builds, succeeded, dropped>>

\* Mutant: one completed dependency is enough.
areDependenciesCompleted_Any(t) == Members(deps[t]) \cap completedSet # {}

areDependenciesCompleted(t) == Members(deps[t]) \subseteq completedSet

\* One turn of the loop of queueReadyDependents; its send does not block.
QueueDependent ==
    /\ cpc = "dependents" /\ cqueue # <<>>
    /\ cqueue' = Tail(cqueue)
    /\ LET t     == Head(cqueue)
           ready == areDependenciesCompleted(t)
           room  == Len(readyQueue) < QueueCap
       IN /\ readyQueue' = IF ready /\ room THEN Append(readyQueue, t)
                                            ELSE readyQueue
          /\ dropped' = IF ready /\ ~room THEN dropped \union {t} ELSE dropped
    /\ UNCHANGED <<setupVars, status, mainVars, results, workerVars, cpc,
                   ctask, pendingCount, cancelTodo, cancelRead, completedSet,
                   hasFailed, failedTask, outcome, ctxVars, builds,
                   succeeded, delivered>>

QueueDependentsEnd ==
    /\ cpc = "dependents" /\ cqueue = <<>>
    /\ Deliver
    /\ UNCHANGED <<setupVars, status, mainVars, readyQueue, results,
                   workerVars, pendingCount, cancelTodo, cancelRead, cqueue,
                   completedSet, hasFailed, failedTask, outcome, ctxVars,
                   builds, succeeded, dropped>>

(***************************************************************************)
(* The specification.                                                      *)
(***************************************************************************)
Setup ==
    \/ \E t \in TaskIDs : AddTask(t)
    \/ \E t \in TaskIDs, d \in TaskIDs : AddDependency(t, d)
    \/ Start
    \/ StartCycle

Main ==
    \/ \E t \in TaskIDs : QueueReadyTask(t)
    \/ SendReady
    \/ FinishStart
    \/ ReturnStart

Worker(w) ==
    \/ WorkerExit(w)
    \/ WorkerReceive(w)
    \/ WorkerRefuse(w)
    \/ WorkerAccept(w)
    \/ BeginBuild(w)
    \/ \E err \in BOOLEAN : EndBuild(w, err)
    \/ SendResult(w)

Collector ==
    \/ CollectEnd
    \/ CollectCanceled
    \/ CollectReceive
    \/ CollectFailure
    \/ CollectNoFailure
    \/ \E t \in TaskIDs : CancelRead(t)
    \/ CancelWrite
    \/ CancelEnd
    \/ CollectCompleted
    \/ CollectNotCompleted
    \/ QueueDependent
    \/ QueueDependentsEnd

Environment == Stop \/ CancelCtx

\* Start has returned and nothing is left to do.
Terminated == main = "returned" /\ UNCHANGED vars

Next ==
    \/ Setup
    \/ Main
    \/ \E w \in Workers : Worker(w)
    \/ Collector
    \/ Environment
    \/ Terminated

Spec == Init /\ [][Next]_vars

\* The Go runtime runs every goroutine that can take a step, and builds end.
FairSpec ==
    /\ Spec
    /\ WF_vars(Main)
    /\ \A w \in Workers : WF_vars(Worker(w))
    /\ WF_vars(Collector)

(***************************************************************************)
(* Properties.                                                             *)
(***************************************************************************)
Held == {"received", "accepted", "building", "sending"}

GraphOK ==
    /\ failureMode \in FailureModes
    /\ tasks \in SUBSET TaskIDs
    /\ deps \in [TaskIDs -> Seq(TaskIDs)]
    /\ dependents \in [TaskIDs -> Seq(TaskIDs)]

ChannelsOK ==
    /\ readyQueue \in Seq(TaskIDs) /\ Len(readyQueue) <= QueueCap
    /\ results \in Seq(TaskIDs) /\ Len(results) <= QueueCap

GoroutinesOK ==
    /\ main \in {"setup", "queueing", "closing", "returned"}
    /\ todo \in SUBSET TaskIDs
    /\ sending \in TaskIDs \union {NoTask}
    /\ wpc \in [Workers -> Held \union {"none", "select", "exited"}]
    /\ wtask \in [Workers -> TaskIDs \union {NoTask}]

CollectorOK ==
    /\ cpc \in {"none", "select", "failed?", "canceling", "completed?",
                "dependents", "done"}
    /\ ctask \in TaskIDs \union {NoTask}
    /\ pendingCount \in Nat
    /\ cancelTodo \in SUBSET TaskIDs
    /\ cancelRead \in TaskIDs \union {NoTask}
    /\ cqueue \in Seq(TaskIDs)
    /\ completedSet \in SUBSET TaskIDs
    /\ hasFailed \in BOOLEAN
    /\ failedTask \in TaskIDs \union {NoTask}
    /\ outcome \in {"none", "cycle", "ok", "failed", "canceled"}

OutcomesOK ==
    /\ status \in [TaskIDs -> Statuses]
    /\ ctxDone \in BOOLEAN /\ stopCalled \in BOOLEAN
    /\ builds \in [TaskIDs -> Nat]
    /\ succeeded \in SUBSET TaskIDs
    /\ delivered \in SUBSET TaskIDs
    /\ dropped \in SUBSET TaskIDs

\* Every variable of the scheduler, its goroutines and its channels has the
\* shape scheduler.go gives it; the channels respect their capacity.
TypeOK == GraphOK /\ ChannelsOK /\ GoroutinesOK /\ CollectorOK /\ OutcomesOK

\* emerge.go:277: "a package only starts building after all its dependencies
\* have completed successfully": when a worker has accepted a task, the
\* BuildFunc of each of its dependencies has returned nil, whatever the races
\* between queueReadyTasks, the workers and the collector did to the statuses.
DependenciesFirst ==
    \A w \in Workers :
        wpc[w] \in {"accepted", "building"} =>
            Members(deps[wtask[w]]) \subseteq succeeded

\* Why it holds.  Only tasks whose dependencies are in completedSet are ever
\* under way, that set only grows, only the collector adds to it, and the
\* status it reads when it does is one that a successful build wrote.
Ready(t) == t \in TaskIDs /\ areDependenciesCompleted(t)

OnlyReadyTasksUnderWay ==
    /\ Members(readyQueue) \subseteq {t \in TaskIDs : Ready(t)}
    /\ sending # NoTask => Ready(sending)
    /\ \A w \in Workers : wpc[w] \in Held => Ready(wtask[w])

CompletedMeansSucceeded ==
    /\ completedSet \subseteq succeeded
    /\ \A t \in TaskIDs : status[t] = "Completed" => t \in succeeded

\* The goroutines exist, and tasks move, only once the graph is fixed.
NothingBeforeStart ==
    main = "setup" => /\ readyQueue = <<>> /\ sending = NoTask
                      /\ cpc = "none"
                      /\ \A w \in Workers : wpc[w] = "none"

CollectorHasTask ==
    cpc \in {"failed?", "canceling", "completed?", "dependents"}
        => ctask \in TaskIDs

\* The inductive invariant behind DependenciesFirst.
IndInv ==
    /\ TypeOK
    /\ OnlyReadyTasksUnderWay
    /\ CompletedMeansSucceeded
    /\ NothingBeforeStart
    /\ CollectorHasTask

\* The collector has answered before Start goes on to return, and no worker is
\* left when it does.  Inductive next to IndInv; the refinement needs it.
QuietAtEnd ==
    /\ main \in {"closing", "returned"} => cpc \in {"done", "none"}
    /\ main = "returned" => \A w \in Workers : wpc[w] \in {"exited", "none"}

\* No dependency was added twice.
EdgesDistinct ==
    \A t \in TaskIDs : Len(deps[t]) = Cardinality(Members(deps[t]))

\* No package is built (and installed) twice in one run of the scheduler, if no
\* dependency was added twice: queueReadyDependents queues a dependent once per
\* entry of Dependents, so that a repeated edge does build a package twice.
BuiltAtMostOnce == EdgesDistinct => \A t \in TaskIDs : builds[t] <= 1

Occurrences(s, t) == Cardinality({i \in 1..Len(s) : s[i] = t})

\* How many times a task is under way between queueReadyTasks or
\* queueReadyDependents and the end of a turn of collectResults.
InFlight(t) ==
    Occurrences(readyQueue, t) + Occurrences(results, t)
      + Cardinality({w \in Workers : wtask[w] = t})
      + (IF sending = t THEN 1 ELSE 0) + (IF ctask = t THEN 1 ELSE 0)

\* collectResults counts down to zero and relies on one result per task: no
\* task is under way twice or again after its result was dealt with, and
\* pendingCount is the number of results still to be received, again if no
\* dependency was added twice.
ResultsAccounted ==
    (EdgesDistinct /\ cpc # "none") =>
      /\ \A t \in tasks : InFlight(t) + (IF t \in delivered THEN 1 ELSE 0) <= 1
      /\ pendingCount = Cardinality(tasks \ delivered)
                          - (IF ctask = NoTask THEN 0 ELSE 1)

\* Why both hold.  A task is in one place at a time: main sends it, readyQueue,
\* a worker or results has it, the collector handles it or has dealt with it.
NoRepeat(s) == \A i \in 1..Len(s), j \in 1..Len(s) : s[i] = s[j] => i = j

DistinctEdges == \A t \in TaskIDs : NoRepeat(deps[t])

Sending     == {sending} \ {NoTask}
Queued      == Members(readyQueue)
WithWorkers == {wtask[w] : w \in Workers} \ {NoTask}
Reported    == Members(results)
Collecting  == {ctask} \ {NoTask}
Started     == Sending \union Queued \union WithWorkers \union Reported
                 \union Collecting \union delivered

\* Dependents is Dependencies the other way round, repetitions included.
EdgesMirrored ==
    /\ \A t \in TaskIDs : Members(deps[t]) \union Members(dependents[t]) \subseteq tasks
    /\ \A t \in TaskIDs, e \in TaskIDs :
           e \in Members(deps[t]) <=> t \in Members(dependents[e])
    /\ DistinctEdges => \A t \in TaskIDs : NoRepeat(dependents[t])

\* Workers and the collector hold a task exactly where they work on one, only
\* the collector completes tasks, and what is started has its dependencies
\* completed.
Holding ==
    /\ \A w \in Workers : wtask[w] # NoTask <=> wpc[w] \in Held
    /\ ctask # NoTask <=> cpc \in {"failed?", "canceling", "completed?", "dependents"}
    /\ todo \union Started \subseteq tasks
    /\ cpc = "dependents" => Members(cqueue) \subseteq tasks
    /\ completedSet \subseteq delivered \union (IF cpc = "dependents" THEN Collecting ELSE {})
    /\ \A t \in Started : Members(deps[t]) \subseteq completedSet
    /\ cpc = "none" => /\ Started = {} /\ todo = {} /\ completedSet = {}
                       /\ \A t \in TaskIDs : builds[t] = 0

OnePlace ==
    /\ NoRepeat(readyQueue) /\ NoRepeat(results)
    /\ \A v \in Workers, w \in Workers : wtask[v] = wtask[w] /\ wtask[v] # NoTask => v = w
    /\ Sending \cap (Queued \union WithWorkers \union Reported \union Collecting \union delivered) = {}
    /\ Queued \cap (WithWorkers \union Reported \union Collecting \union delivered) = {}
    /\ WithWorkers \cap (Reported \union Collecting \union delivered) = {}
    /\ Reported \cap (Collecting \union delivered) = {}
    /\ Collecting \cap delivered = {}

\* What queueReadyTasks and queueReadyDependents are still to queue.
QueuedOnce ==
    /\ \A t \in todo : deps[t] = <<>> => t \notin Started
    /\ cpc = "dependents" => /\ NoRepeat(cqueue)
                             /\ Members(cqueue) \subseteq Members(dependents[ctask]) \ Started

\* A task that was built is past its build.
BuiltOnce ==
    \A t \in TaskIDs :
        \/ builds[t] = 0
        \/ /\ builds[t] = 1
           /\ \/ t \in Reported \union Collecting \union delivered
              \/ \E w \in Workers : wtask[w] = t /\ wpc[w] \in {"building", "sending"}

CountExact ==
    cpc # "none" =>
        pendingCount = Cardinality(tasks \ delivered) - (IF ctask = NoTask THEN 0 ELSE 1)

\* The inductive invariant behind ResultsExact.
OnceInv ==
    /\ EdgesMirrored
    /\ Holding
    /\ DistinctEdges => OnePlace /\ QueuedOnce /\ BuiltOnce /\ CountExact

(***************************************************************************)
(* The promise of OrderedBuilds and how the scheduler's state maps to it.  *)
(* A build begins when a worker accepts its task, the last point at which  *)
(* Stop mode can keep it from being built.                                 *)
(***************************************************************************)
PhaseBar == IF main = "setup" THEN "planning"
            ELSE IF main = "returned" THEN "over" ELSE "building"

NeedsBar == [t \in TaskIDs |-> Members(deps[t])]

Building(w) == wpc[w] \in {"accepted", "building"}

LaneBar == [w \in Workers |-> IF Building(w) THEN wtask[w] ELSE NoTask]

HaltedBar == failureMode = "Stop" /\ hasFailed

Promise == INSTANCE OrderedBuilds WITH
               Packages <- TaskIDs, Lanes <- Workers, NoPackage <- NoTask,
               phase <- PhaseBar, needs <- NeedsBar, lane <- LaneBar,
               built <- succeeded, halted <- HaltedBar

\* The scheduler implements OrderedBuilds (emerge.go:275-278 and
\* scheduler.go:57-61): the graph is fixed once Start runs, a task is accepted
\* by a worker only after its dependencies were built and, in Stop mode, only
\* as long as no failure has been recorded, and Start returns only after the
\* last build has ended.
ImplementsPromise == Promise!Spec

\* scheduler.go:335: Start "blocks until all tasks complete or an error
\* occurs": a nil error means that every task was built successfully.
NilMeansAllBuilt ==
    (main = "returned" /\ outcome = "ok") => tasks \subseteq succeeded

\* scheduler.go:669: the ready queue is never full when a dependent becomes
\* ready ("this shouldn't happen with proper sizing").
NothingDropped == dropped = {}

\* Once Start has begun it returns.
StartReturns == (main = "queueing") ~> (main = "returned")

\* Once the context passed to Start is done, Start returns.
CancelReturns == (main # "setup" /\ ctxDone) ~> (main = "returned")

\* Once Stop was called, Start returns.
StopReturns == stopCalled ~> (main = "returned")

\* Tasks that can no longer become ready: the result of a dependency was dealt
\* with and did not put that dependency into completedSet.
Stranded ==
    {t \in tasks : Members(deps[t]) \cap (delivered \ completedSet) # {}}

\* Without cancellation of the context, Start fails to return only if a
\* task was stranded by a dependency or dropped from a full ready queue: no
\* other interleaving of main, workers and collector blocks it.
ReturnsUnlessTaskLost ==
    (main = "queueing") ~>
        (main = "returned" \/ Stranded # {} \/ dropped # {})

\* scheduler.go:61: FailureModeContinue "continues building non-dependent
\* packages on failure": a task whose dependencies all succeed is built, unless
\* the ready queue was full.  It is claimed for dependencies without
\* dependencies of their own only: the status of any other one may be
\* overwritten by queueReadyTasks, see NilMeansAllBuilt.
ContinueBuildsOthers ==
    \A t \in TaskIDs :
        (/\ failureMode = "Continue" /\ main = "queueing"
         /\ t \in tasks /\ Members(deps[t]) \subseteq succeeded
         /\ \A d \in Members(deps[t]) : deps[d] = <<>>)
            ~> (builds[t] > 0 \/ t \in dropped)

\* Without dependencies between the tasks and without cancellation, nil means
\* that all were built, also when main blocks on the full ready queue while
\* workers fail and the collector cancels.
NilMeansIndependentBuilt ==
    (main = "returned" /\ outcome = "ok" /\ \A t \in tasks : deps[t] = <<>>)
        => tasks \subseteq succeeded

\* The bookkeeping of collectResults: nothing is built twice, and every result is
\* counted once.
ResultsExact == BuiltAtMostOnce /\ ResultsAccounted

\* Without cancellation Start returns, unless a task was stranded behind a failed
\* one or dropped, and it does not return nil when an independent task has failed.
StartReturnsRight == []NilMeansIndependentBuilt /\ ReturnsUnlessTaskLost
=============================================================================
