------------------------ MODULE BuildSchedulerProofs ------------------------
(***************************************************************************)
(* Proofs about BuildScheduler for every set of tasks and workers, every   *)
(* dependency graph (cyclic ones and repeated edges included), both        *)
(* failure modes and every interruption.                                   *)
(***************************************************************************)
EXTENDS BuildScheduler, KahnSort, FiniteSetTheorems, SequenceTheorems, TLAPS

\* The elements of a channel's buffer after a send and after a receive.
LEMMA MembersAppend ==
    ASSUME NEW S, NEW s \in Seq(S), NEW e \in S
    PROVE  /\ Append(s, e) \in Seq(S)
           /\ Len(Append(s, e)) = Len(s) + 1
           /\ Members(Append(s, e)) = Members(s) \union {e}
BY DEF Members

\* A receive removes nothing but the head of the buffer.
LEMMA MembersTail ==
    ASSUME NEW S, NEW s \in Seq(S), s # <<>>
    PROVE  /\ Tail(s) \in Seq(S)
           /\ Len(Tail(s)) = Len(s) - 1
           /\ Head(s) \in S
           /\ Head(s) \in Members(s)
           /\ Members(Tail(s)) \subseteq Members(s)
BY DEF Members

\* There are finitely many workers, so the channel capacity is a number.
LEMMA CapType == MaxWorkers \in Nat /\ QueueCap \in Nat
<1>1. MaxWorkers \in Nat
  BY WorkersAssumption, FS_CardinalityType DEF MaxWorkers
<1> QED BY <1>1 DEF QueueCap

\* A set of tasks has a cardinality (pendingCount starts as one).
LEMMA CountType == ASSUME NEW S \in SUBSET TaskIDs PROVE Cardinality(S) \in Nat
BY TaskIDsAssumption, FS_Subset, FS_CardinalityType

\* A new scheduler satisfies the invariant (NewBuildScheduler).
LEMMA InitIndInv == Init => IndInv
<1> SUFFICES ASSUME Init PROVE IndInv
  OBVIOUS
<1>1. GraphOK /\ ChannelsOK
  BY CapType DEF Init, GraphOK, ChannelsOK
<1>2. GoroutinesOK
  <2>1. wpc \in [Workers -> Held \union {"none", "select", "exited"}]
    BY DEF Init
  <2>2. wtask \in [Workers -> TaskIDs \union {NoTask}]
    BY DEF Init
  <2> QED BY <2>1, <2>2 DEF Init, GoroutinesOK
<1>3. CollectorOK
  <2>1. cqueue \in Seq(TaskIDs) /\ pendingCount \in Nat
    BY DEF Init
  <2> QED BY <2>1 DEF Init, CollectorOK
<1>4. OutcomesOK
  BY DEF Init, OutcomesOK, Statuses
<1>5. OnlyReadyTasksUnderWay
  BY DEF Init, OnlyReadyTasksUnderWay, Members, Held
<1>6. CompletedMeansSucceeded /\ NothingBeforeStart /\ CollectorHasTask
  BY DEF Init, CompletedMeansSucceeded, NothingBeforeStart, CollectorHasTask
<1> QED BY <1>1, <1>2, <1>3, <1>4, <1>5, <1>6 DEF IndInv, TypeOK

\* What a step leaves alone keeps its part of the invariant: the graph ...
LEMMA GraphKept == GraphOK /\ UNCHANGED setupVars => GraphOK'
BY DEF GraphOK, setupVars

\* ... the channels ...
LEMMA ChannelsKept == ChannelsOK /\ UNCHANGED <<readyQueue, results>> => ChannelsOK'
BY DEF ChannelsOK

\* ... main and the workers ...
LEMMA GoroutinesKept ==
    GoroutinesOK /\ UNCHANGED <<mainVars, workerVars>> => GoroutinesOK'
BY DEF GoroutinesOK, mainVars, workerVars

\* ... the collector ...
LEMMA CollectorKept == CollectorOK /\ UNCHANGED collVars => CollectorOK'
BY DEF CollectorOK, collVars

\* ... and the statuses, contexts and history.
LEMMA OutcomesKept ==
    OutcomesOK /\ UNCHANGED <<status, ctxVars, history>> => OutcomesOK'
BY DEF OutcomesOK, ctxVars, history

\* While the graph and completedSet only grow, what was ready stays ready.
LEMMA ReadyStays ==
    ASSUME deps' = deps, completedSet \subseteq completedSet',
           NEW t, Ready(t)
    PROVE  Ready(t)'
BY DEF Ready, areDependenciesCompleted

\* A step that queues nothing new and hands no task to a worker keeps
\* OnlyReadyTasksUnderWay.
LEMMA UnderWayKept ==
    ASSUME OnlyReadyTasksUnderWay, UNCHANGED deps,
           completedSet \subseteq completedSet',
           UNCHANGED readyQueue, sending' \in {sending, NoTask},
           \A w \in Workers :
               wpc'[w] \in Held => wpc[w] \in Held /\ wtask'[w] = wtask[w]
    PROVE  OnlyReadyTasksUnderWay'
<1>1. \A t : Ready(t) => Ready(t)'
  BY ReadyStays
<1> QED BY <1>1 DEF OnlyReadyTasksUnderWay, Members

\* AddTask, AddDependency and the beginning of Start keep the invariant: the
\* graph grows only while nothing is under way.
LEMMA SetupStep == IndInv /\ Setup => IndInv'
<1> SUFFICES ASSUME IndInv, Setup PROVE IndInv'
  OBVIOUS
<1> USE DEF IndInv, TypeOK
<1>1. ASSUME NEW t \in TaskIDs, AddTask(t) PROVE IndInv'
  <2>1. GraphOK'
    BY <1>1 DEF AddTask, GraphOK
  <2>2. ChannelsOK' /\ GoroutinesOK' /\ CollectorOK' /\ OutcomesOK'
    BY <1>1, ChannelsKept, GoroutinesKept, CollectorKept, OutcomesKept
    DEF AddTask
  <2>3. OnlyReadyTasksUnderWay'
    BY <1>1, UnderWayKept DEF AddTask, mainVars, workerVars, collVars
  <2>4. CompletedMeansSucceeded' /\ NothingBeforeStart' /\ CollectorHasTask'
    BY <1>1 DEF AddTask, CompletedMeansSucceeded, NothingBeforeStart,
       CollectorHasTask, mainVars, workerVars, collVars, history
  <2> QED BY <2>1, <2>2, <2>3, <2>4
<1>2. ASSUME NEW t \in TaskIDs, NEW e \in TaskIDs, AddDependency(t, e)
      PROVE  IndInv'
  <2>1. GraphOK'
    BY <1>2, MembersAppend DEF AddDependency, GraphOK
  <2>2. ChannelsOK' /\ GoroutinesOK' /\ CollectorOK' /\ OutcomesOK'
    BY <1>2, ChannelsKept, GoroutinesKept, CollectorKept, OutcomesKept
    DEF AddDependency
  <2>3. NothingBeforeStart' /\ main' = "setup"
    BY <1>2 DEF AddDependency, NothingBeforeStart, mainVars, workerVars,
       collVars
  <2>4. OnlyReadyTasksUnderWay'
    BY <2>3 DEF NothingBeforeStart, OnlyReadyTasksUnderWay, Members, Held
  <2>5. CompletedMeansSucceeded' /\ CollectorHasTask'
    BY <1>2 DEF AddDependency, CompletedMeansSucceeded, CollectorHasTask,
       collVars, history
  <2> QED BY <2>1, <2>2, <2>3, <2>4, <2>5
<1>3. ASSUME Start PROVE IndInv'
  <2>1. GraphOK' /\ ChannelsOK' /\ OutcomesOK'
    BY <1>3, GraphKept, ChannelsKept, OutcomesKept DEF Start
  <2>2. GoroutinesOK'
    BY <1>3 DEF Start, GoroutinesOK, GraphOK
  <2>3. CollectorOK'
    BY <1>3, CountType DEF Start, CollectorOK, GraphOK
  <2>4. OnlyReadyTasksUnderWay'
    BY <1>3 DEF Start, OnlyReadyTasksUnderWay, NothingBeforeStart, Members,
       Held
  <2>5. CompletedMeansSucceeded' /\ NothingBeforeStart' /\ CollectorHasTask'
    BY <1>3 DEF Start, CompletedMeansSucceeded, NothingBeforeStart,
       CollectorHasTask, history
  <2> QED BY <2>1, <2>2, <2>3, <2>4, <2>5
<1>4. ASSUME StartCycle PROVE IndInv'
  <2>1. GraphOK' /\ ChannelsOK' /\ OutcomesOK'
    BY <1>4, GraphKept, ChannelsKept, OutcomesKept DEF StartCycle
  <2>2. GoroutinesOK'
    BY <1>4 DEF StartCycle, GoroutinesOK, workerVars
  <2>3. CollectorOK'
    BY <1>4 DEF StartCycle, CollectorOK
  <2>4. OnlyReadyTasksUnderWay'
    BY <1>4, UnderWayKept DEF StartCycle, setupVars, workerVars
  <2>5. CompletedMeansSucceeded' /\ NothingBeforeStart' /\ CollectorHasTask'
    BY <1>4 DEF StartCycle, CompletedMeansSucceeded, NothingBeforeStart,
       CollectorHasTask, history
  <2> QED BY <2>1, <2>2, <2>3, <2>4, <2>5
<1> QED BY <1>1, <1>2, <1>3, <1>4 DEF Setup

\* Start and queueReadyTasks keep the invariant: what they queue has no
\* dependencies.
LEMMA MainStep == IndInv /\ Main => IndInv'
<1> SUFFICES ASSUME IndInv, Main PROVE IndInv'
  OBVIOUS
<1> USE DEF IndInv, TypeOK
<1>1. ASSUME NEW t \in TaskIDs, QueueReadyTask(t) PROVE IndInv'
  <2>1. GraphOK' /\ ChannelsOK' /\ CollectorOK'
    BY <1>1, GraphKept, ChannelsKept, CollectorKept DEF QueueReadyTask
  <2>2. GoroutinesOK'
    BY <1>1 DEF QueueReadyTask, GoroutinesOK, workerVars
  <2>3. OutcomesOK'
    BY <1>1 DEF QueueReadyTask, OutcomesOK, Statuses, ctxVars, history
  <2>4. sending' # NoTask => Ready(sending)'
    BY <1>1 DEF QueueReadyTask, Ready, areDependenciesCompleted, Members,
       setupVars
  <2>5. \A x : Ready(x) => Ready(x)'
    BY <1>1, ReadyStays DEF QueueReadyTask, setupVars, collVars
  <2>6. OnlyReadyTasksUnderWay'
    BY <1>1, <2>4, <2>5
    DEF QueueReadyTask, OnlyReadyTasksUnderWay, Members, workerVars
  <2>7. CompletedMeansSucceeded' /\ NothingBeforeStart' /\ CollectorHasTask'
    BY <1>1 DEF QueueReadyTask, CompletedMeansSucceeded, NothingBeforeStart,
       CollectorHasTask, OutcomesOK, collVars, history
  <2> QED BY <2>1, <2>2, <2>3, <2>6, <2>7
<1>2. ASSUME SendReady PROVE IndInv'
  <2>1. sending \in TaskIDs /\ Ready(sending)
    BY <1>2 DEF SendReady, GoroutinesOK, OnlyReadyTasksUnderWay
  <2>2. /\ readyQueue' \in Seq(TaskIDs)
        /\ Len(readyQueue') <= QueueCap
        /\ Members(readyQueue') = Members(readyQueue) \union {sending}
    BY <1>2, <2>1, MembersAppend, CapType DEF SendReady, ChannelsOK
  <2>3. ChannelsOK'
    BY <1>2, <2>2 DEF SendReady, ChannelsOK
  <2>4. GraphOK' /\ CollectorOK' /\ OutcomesOK'
    BY <1>2, GraphKept, CollectorKept, OutcomesKept DEF SendReady
  <2>5. GoroutinesOK'
    BY <1>2 DEF SendReady, GoroutinesOK, workerVars
  <2>6. \A x : Ready(x) => Ready(x)'
    BY <1>2, ReadyStays DEF SendReady, setupVars, collVars
  <2>7. Members(readyQueue)' \subseteq {t \in TaskIDs : Ready(t)'}
    BY <2>1, <2>2, <2>6 DEF OnlyReadyTasksUnderWay, Members
  <2>8. OnlyReadyTasksUnderWay'
    BY <1>2, <2>6, <2>7 DEF SendReady, OnlyReadyTasksUnderWay, workerVars
  <2>9. CompletedMeansSucceeded' /\ NothingBeforeStart' /\ CollectorHasTask'
    BY <1>2 DEF SendReady, CompletedMeansSucceeded, NothingBeforeStart,
       CollectorHasTask, collVars, history
  <2> QED BY <2>3, <2>4, <2>5, <2>8, <2>9
<1>3. ASSUME FinishStart PROVE IndInv'
  <2>1. GraphOK' /\ ChannelsOK' /\ CollectorOK'
    BY <1>3, GraphKept, ChannelsKept, CollectorKept DEF FinishStart
  <2>2. GoroutinesOK' /\ OutcomesOK'
    BY <1>3 DEF FinishStart, GoroutinesOK, OutcomesOK, workerVars, history
  <2>3. OnlyReadyTasksUnderWay'
    BY <1>3, UnderWayKept DEF FinishStart, setupVars, workerVars, collVars
  <2>4. CompletedMeansSucceeded' /\ NothingBeforeStart' /\ CollectorHasTask'
    BY <1>3 DEF FinishStart, CompletedMeansSucceeded, NothingBeforeStart,
       CollectorHasTask, collVars, history
  <2> QED BY <2>1, <2>2, <2>3, <2>4
<1>4. ASSUME ReturnStart PROVE IndInv'
  <2>1. GraphOK' /\ ChannelsOK' /\ CollectorOK' /\ OutcomesOK'
    BY <1>4, GraphKept, ChannelsKept, CollectorKept, OutcomesKept
    DEF ReturnStart
  <2>2. GoroutinesOK'
    BY <1>4 DEF ReturnStart, GoroutinesOK, workerVars
  <2>3. OnlyReadyTasksUnderWay'
    BY <1>4, UnderWayKept DEF ReturnStart, setupVars, workerVars, collVars
  <2>4. CompletedMeansSucceeded' /\ NothingBeforeStart' /\ CollectorHasTask'
    BY <1>4 DEF ReturnStart, CompletedMeansSucceeded, NothingBeforeStart,
       CollectorHasTask, collVars, history
  <2> QED BY <2>1, <2>2, <2>3, <2>4
<1> QED BY <1>1, <1>2, <1>3, <1>4 DEF Main

\* A worker keeps the invariant: a task it holds was ready when it was queued
\* and stays so; only a build that returned nil makes a status Completed.
LEMMA WorkerStep == IndInv /\ (\E w \in Workers : Worker(w)) => IndInv'
<1> SUFFICES ASSUME IndInv, NEW w \in Workers, Worker(w) PROVE IndInv'
  OBVIOUS
<1> USE DEF IndInv, TypeOK
<1>a. ASSUME wpc[w] \in Held PROVE wtask[w] \in TaskIDs /\ Ready(wtask[w])
  BY <1>a DEF OnlyReadyTasksUnderWay, Ready
<1>1. ASSUME WorkerExit(w) PROVE IndInv'
  <2>1. GraphOK' /\ ChannelsOK' /\ CollectorOK' /\ OutcomesOK'
    BY <1>1, GraphKept, ChannelsKept, CollectorKept, OutcomesKept
    DEF WorkerExit
  <2>2. GoroutinesOK'
    BY <1>1 DEF WorkerExit, GoroutinesOK, mainVars
  <2>3. OnlyReadyTasksUnderWay'
    BY <1>1, UnderWayKept
    DEF WorkerExit, GoroutinesOK, Held, setupVars, mainVars, collVars
  <2>4. CompletedMeansSucceeded' /\ NothingBeforeStart' /\ CollectorHasTask'
    BY <1>1 DEF WorkerExit, CompletedMeansSucceeded, NothingBeforeStart,
       CollectorHasTask, mainVars, collVars, history
  <2> QED BY <2>1, <2>2, <2>3, <2>4
<1>2. ASSUME WorkerReceive(w) PROVE IndInv'
  <2>1. /\ Head(readyQueue) \in TaskIDs
        /\ Ready(Head(readyQueue))
        /\ readyQueue' \in Seq(TaskIDs)
        /\ Len(readyQueue') <= QueueCap
        /\ Members(readyQueue') \subseteq Members(readyQueue)
    BY <1>2, MembersTail, CapType
    DEF WorkerReceive, ChannelsOK, OnlyReadyTasksUnderWay
  <2>2. ChannelsOK'
    BY <1>2, <2>1 DEF WorkerReceive, ChannelsOK
  <2>3. GraphOK' /\ CollectorOK' /\ OutcomesOK'
    BY <1>2, GraphKept, CollectorKept, OutcomesKept DEF WorkerReceive
  <2>4. GoroutinesOK'
    BY <1>2, <2>1 DEF WorkerReceive, GoroutinesOK, mainVars, Held
  <2>5. \A x : Ready(x) => Ready(x)'
    BY <1>2, ReadyStays DEF WorkerReceive, setupVars, collVars
  <2>6. \A v \in Workers : (wpc[v] \in Held => Ready(wtask[v]))'
    BY <1>2, <2>1, <2>5
    DEF WorkerReceive, OnlyReadyTasksUnderWay, GoroutinesOK
  <2>7. Members(readyQueue)' \subseteq {x \in TaskIDs : Ready(x)'}
    BY <2>1, <2>5 DEF OnlyReadyTasksUnderWay, Members
  <2>8. OnlyReadyTasksUnderWay'
    BY <1>2, <2>5, <2>6, <2>7
    DEF WorkerReceive, OnlyReadyTasksUnderWay, mainVars
  <2>9. CompletedMeansSucceeded' /\ NothingBeforeStart' /\ CollectorHasTask'
    BY <1>2 DEF WorkerReceive, CompletedMeansSucceeded, NothingBeforeStart,
       CollectorHasTask, mainVars, collVars, history
  <2> QED BY <2>2, <2>3, <2>4, <2>8, <2>9
<1>3. ASSUME WorkerRefuse(w) PROVE IndInv'
  <2>1. GraphOK' /\ ChannelsOK' /\ CollectorOK'
    BY <1>3, GraphKept, ChannelsKept, CollectorKept DEF WorkerRefuse
  <2>2. GoroutinesOK' /\ OutcomesOK'
    BY <1>3 DEF WorkerRefuse, GoroutinesOK, OutcomesOK, Held, Statuses,
       mainVars, ctxVars, history
  <2>3. OnlyReadyTasksUnderWay'
    BY <1>3, UnderWayKept
    DEF WorkerRefuse, GoroutinesOK, Held, setupVars, mainVars, collVars
  <2>4. CompletedMeansSucceeded' /\ NothingBeforeStart' /\ CollectorHasTask'
    BY <1>3 DEF WorkerRefuse, CompletedMeansSucceeded, NothingBeforeStart,
       CollectorHasTask, OutcomesOK, mainVars, collVars, history
  <2> QED BY <2>1, <2>2, <2>3, <2>4
<1>4. ASSUME WorkerAccept(w) PROVE IndInv'
  <2>1. GraphOK' /\ ChannelsOK' /\ CollectorOK' /\ OutcomesOK'
    BY <1>4, GraphKept, ChannelsKept, CollectorKept, OutcomesKept
    DEF WorkerAccept
  <2>2. GoroutinesOK'
    BY <1>4 DEF WorkerAccept, GoroutinesOK, Held, mainVars
  <2>3. OnlyReadyTasksUnderWay'
    BY <1>4, UnderWayKept
    DEF WorkerAccept, GoroutinesOK, Held, setupVars, mainVars, collVars
  <2>4. CompletedMeansSucceeded' /\ NothingBeforeStart' /\ CollectorHasTask'
    BY <1>4 DEF WorkerAccept, CompletedMeansSucceeded, NothingBeforeStart,
       CollectorHasTask, mainVars, collVars, history
  <2> QED BY <2>1, <2>2, <2>3, <2>4
<1>5. ASSUME BeginBuild(w) PROVE IndInv'
  <2>1. GraphOK' /\ ChannelsOK' /\ CollectorOK'
    BY <1>5, GraphKept, ChannelsKept, CollectorKept DEF BeginBuild
  <2>2. GoroutinesOK' /\ OutcomesOK'
    BY <1>5, <1>a DEF BeginBuild, GoroutinesOK, OutcomesOK, Held, Statuses,
       mainVars, ctxVars
  <2>3. OnlyReadyTasksUnderWay'
    BY <1>5, UnderWayKept
    DEF BeginBuild, GoroutinesOK, Held, setupVars, mainVars, collVars
  <2>4. CompletedMeansSucceeded' /\ NothingBeforeStart' /\ CollectorHasTask'
    BY <1>5 DEF BeginBuild, CompletedMeansSucceeded, NothingBeforeStart,
       CollectorHasTask, OutcomesOK, mainVars, collVars
  <2> QED BY <2>1, <2>2, <2>3, <2>4
<1>6. ASSUME NEW err \in BOOLEAN, EndBuild(w, err) PROVE IndInv'
  <2>0. wtask[w] \in TaskIDs
    BY <1>6, <1>a DEF EndBuild, Held
  <2>1. GraphOK' /\ ChannelsOK' /\ CollectorOK'
    BY <1>6, GraphKept, ChannelsKept, CollectorKept DEF EndBuild
  <2>2. GoroutinesOK'
    BY <1>6 DEF EndBuild, GoroutinesOK, Held, mainVars
  <2>3. OutcomesOK'
    BY <1>6, <2>0 DEF EndBuild, OutcomesOK, Statuses, ctxVars
  <2>4. OnlyReadyTasksUnderWay'
    BY <1>6, UnderWayKept
    DEF EndBuild, GoroutinesOK, Held, setupVars, mainVars, collVars
  <2>5. CompletedMeansSucceeded'
    BY <1>6, <2>0 DEF EndBuild, CompletedMeansSucceeded, OutcomesOK, collVars
  <2>6. NothingBeforeStart' /\ CollectorHasTask'
    BY <1>6 DEF EndBuild, NothingBeforeStart, CollectorHasTask, mainVars,
       collVars
  <2> QED BY <2>1, <2>2, <2>3, <2>4, <2>5, <2>6
<1>7. ASSUME SendResult(w) PROVE IndInv'
  <2>1. wtask[w] \in TaskIDs
    BY <1>7, <1>a DEF SendResult, Held
  <2>2. ChannelsOK'
    BY <1>7, <2>1, MembersAppend, CapType DEF SendResult, ChannelsOK
  <2>3. GraphOK' /\ CollectorOK' /\ OutcomesOK'
    BY <1>7, GraphKept, CollectorKept, OutcomesKept DEF SendResult
  <2>4. GoroutinesOK'
    BY <1>7 DEF SendResult, GoroutinesOK, mainVars
  <2>5. OnlyReadyTasksUnderWay'
    BY <1>7, UnderWayKept
    DEF SendResult, GoroutinesOK, Held, setupVars, mainVars, collVars
  <2>6. CompletedMeansSucceeded' /\ NothingBeforeStart' /\ CollectorHasTask'
    BY <1>7 DEF SendResult, CompletedMeansSucceeded, NothingBeforeStart,
       CollectorHasTask, mainVars, collVars, history
  <2> QED BY <2>2, <2>3, <2>4, <2>5, <2>6
<1> QED BY <1>1, <1>2, <1>3, <1>4, <1>5, <1>6, <1>7 DEF Worker

\* collectResults, cancelRemainingTasks and queueReadyDependents keep the
\* invariant: only completed tasks enter completedSet, and only dependents all
\* of whose dependencies are in it are queued.
LEMMA CollectorStep == IndInv /\ Collector => IndInv'
<1> SUFFICES ASSUME IndInv, Collector PROVE IndInv'
  OBVIOUS
<1> USE DEF IndInv, TypeOK
<1>1. ASSUME CollectEnd \/ CollectCanceled PROVE IndInv'
  <2>1. GraphOK' /\ ChannelsOK' /\ GoroutinesOK' /\ OutcomesOK'
    BY <1>1, GraphKept, ChannelsKept, GoroutinesKept, OutcomesKept
    DEF CollectEnd, CollectCanceled
  <2>2. CollectorOK'
    BY <1>1 DEF CollectEnd, CollectCanceled, CollectorOK
  <2>3. OnlyReadyTasksUnderWay'
    BY <1>1, UnderWayKept
    DEF CollectEnd, CollectCanceled, setupVars, mainVars, workerVars
  <2>4. CompletedMeansSucceeded' /\ NothingBeforeStart' /\ CollectorHasTask'
    BY <1>1 DEF CollectEnd, CollectCanceled, CompletedMeansSucceeded,
       NothingBeforeStart, CollectorHasTask, mainVars, history
  <2> QED BY <2>1, <2>2, <2>3, <2>4
<1>2. ASSUME CollectReceive PROVE IndInv'
  <2>1. /\ Head(results) \in TaskIDs
        /\ results' \in Seq(TaskIDs)
        /\ Len(results') <= QueueCap
    BY <1>2, MembersTail, CapType DEF CollectReceive, ChannelsOK
  <2>2. ChannelsOK'
    BY <1>2, <2>1 DEF CollectReceive, ChannelsOK
  <2>3. GraphOK' /\ GoroutinesOK' /\ OutcomesOK'
    BY <1>2, GraphKept, GoroutinesKept, OutcomesKept DEF CollectReceive
  <2>4. CollectorOK'
    BY <1>2, <2>1 DEF CollectReceive, CollectorOK
  <2>5. OnlyReadyTasksUnderWay'
    BY <1>2, UnderWayKept DEF CollectReceive, setupVars, mainVars, workerVars
  <2>6. CompletedMeansSucceeded' /\ NothingBeforeStart' /\ CollectorHasTask'
    BY <1>2, <2>1 DEF CollectReceive, CompletedMeansSucceeded,
       NothingBeforeStart, CollectorHasTask, mainVars, history
  <2> QED BY <2>2, <2>3, <2>4, <2>5, <2>6
<1>3. ASSUME CollectFailure PROVE IndInv'
  <2>1. GraphOK' /\ ChannelsOK' /\ GoroutinesOK' /\ OutcomesOK'
    BY <1>3, GraphKept, ChannelsKept, GoroutinesKept, OutcomesKept
    DEF CollectFailure
  <2>2. CollectorOK'
    BY <1>3 DEF CollectFailure, CollectorOK, GraphOK
  <2>3. OnlyReadyTasksUnderWay'
    BY <1>3, UnderWayKept DEF CollectFailure, setupVars, mainVars, workerVars
  <2>4. CompletedMeansSucceeded' /\ NothingBeforeStart' /\ CollectorHasTask'
    BY <1>3 DEF CollectFailure, CompletedMeansSucceeded, NothingBeforeStart,
       CollectorHasTask, mainVars, history
  <2> QED BY <2>1, <2>2, <2>3, <2>4
<1>4. ASSUME CollectNoFailure \/ CancelEnd PROVE IndInv'
  <2>1. GraphOK' /\ ChannelsOK' /\ GoroutinesOK' /\ OutcomesOK'
    BY <1>4, GraphKept, ChannelsKept, GoroutinesKept, OutcomesKept
    DEF CollectNoFailure, CancelEnd
  <2>2. CollectorOK'
    BY <1>4 DEF CollectNoFailure, CancelEnd, CollectorOK
  <2>3. OnlyReadyTasksUnderWay'
    BY <1>4, UnderWayKept
    DEF CollectNoFailure, CancelEnd, setupVars, mainVars, workerVars
  <2>4. CompletedMeansSucceeded' /\ NothingBeforeStart' /\ CollectorHasTask'
    BY <1>4 DEF CollectNoFailure, CancelEnd, CompletedMeansSucceeded,
       NothingBeforeStart, CollectorHasTask, mainVars, history
  <2> QED BY <2>1, <2>2, <2>3, <2>4
<1>5. ASSUME NEW t \in TaskIDs, CancelRead(t) PROVE IndInv'
  <2>1. GraphOK' /\ ChannelsOK' /\ GoroutinesOK' /\ OutcomesOK'
    BY <1>5, GraphKept, ChannelsKept, GoroutinesKept, OutcomesKept
    DEF CancelRead
  <2>2. CollectorOK'
    BY <1>5 DEF CancelRead, CollectorOK
  <2>3. OnlyReadyTasksUnderWay'
    BY <1>5, UnderWayKept DEF CancelRead, setupVars, mainVars, workerVars
  <2>4. CompletedMeansSucceeded' /\ NothingBeforeStart' /\ CollectorHasTask'
    BY <1>5 DEF CancelRead, CompletedMeansSucceeded, NothingBeforeStart,
       CollectorHasTask, mainVars, history
  <2> QED BY <2>1, <2>2, <2>3, <2>4
<1>6. ASSUME CancelWrite PROVE IndInv'
  <2>1. GraphOK' /\ ChannelsOK' /\ GoroutinesOK'
    BY <1>6, GraphKept, ChannelsKept, GoroutinesKept DEF CancelWrite
  <2>2. CollectorOK'
    BY <1>6 DEF CancelWrite, CollectorOK
  <2>3. OutcomesOK'
    BY <1>6 DEF CancelWrite, OutcomesOK, Statuses, ctxVars, history
  <2>4. OnlyReadyTasksUnderWay'
    BY <1>6, UnderWayKept DEF CancelWrite, setupVars, mainVars, workerVars
  <2>5. CompletedMeansSucceeded' /\ NothingBeforeStart' /\ CollectorHasTask'
    BY <1>6 DEF CancelWrite, CompletedMeansSucceeded, NothingBeforeStart,
       CollectorHasTask, OutcomesOK, mainVars, workerVars, history
  <2> QED BY <2>1, <2>2, <2>3, <2>4, <2>5
<1>7. ASSUME CollectCompleted PROVE IndInv'
  <2>0. ctask \in TaskIDs /\ ctask \in succeeded
    BY <1>7 DEF CollectCompleted, CollectorHasTask, CompletedMeansSucceeded
  <2>1. GraphOK' /\ ChannelsOK' /\ GoroutinesOK' /\ OutcomesOK'
    BY <1>7, GraphKept, ChannelsKept, GoroutinesKept, OutcomesKept
    DEF CollectCompleted
  <2>2. CollectorOK'
    BY <1>7, <2>0 DEF CollectCompleted, CollectorOK, GraphOK
  <2>3. OnlyReadyTasksUnderWay'
    BY <1>7, UnderWayKept
    DEF CollectCompleted, setupVars, mainVars, workerVars
  <2>4. CompletedMeansSucceeded'
    BY <1>7, <2>0 DEF CollectCompleted, CompletedMeansSucceeded, history
  <2>5. NothingBeforeStart' /\ CollectorHasTask'
    BY <1>7 DEF CollectCompleted, NothingBeforeStart, CollectorHasTask,
       mainVars
  <2> QED BY <2>1, <2>2, <2>3, <2>4, <2>5
<1>8. ASSUME CollectNotCompleted \/ QueueDependentsEnd PROVE IndInv'
  <2>0. ctask \in TaskIDs
    BY <1>8 DEF CollectNotCompleted, QueueDependentsEnd, CollectorHasTask
  <2>1. GraphOK' /\ ChannelsOK' /\ GoroutinesOK'
    BY <1>8, GraphKept, ChannelsKept, GoroutinesKept
    DEF CollectNotCompleted, QueueDependentsEnd
  <2>2. CollectorOK'
    BY <1>8 DEF CollectNotCompleted, QueueDependentsEnd, Deliver, CollectorOK
  <2>3. OutcomesOK'
    BY <1>8, <2>0 DEF CollectNotCompleted, QueueDependentsEnd, Deliver,
       OutcomesOK, ctxVars
  <2>4. OnlyReadyTasksUnderWay'
    BY <1>8, UnderWayKept
    DEF CollectNotCompleted, QueueDependentsEnd, setupVars, mainVars,
        workerVars
  <2>5. CompletedMeansSucceeded' /\ NothingBeforeStart' /\ CollectorHasTask'
    BY <1>8 DEF CollectNotCompleted, QueueDependentsEnd, Deliver,
       CompletedMeansSucceeded, NothingBeforeStart, CollectorHasTask, mainVars
  <2> QED BY <2>1, <2>2, <2>3, <2>4, <2>5
<1>9. ASSUME QueueDependent PROVE IndInv'
  <2> DEFINE t == Head(cqueue)
  <2>1. t \in TaskIDs /\ cqueue' \in Seq(TaskIDs)
    BY <1>9, MembersTail DEF QueueDependent, CollectorOK
  <2>2. \/ readyQueue' = readyQueue
        \/ /\ Ready(t)
           /\ Len(readyQueue) < QueueCap
           /\ readyQueue' = Append(readyQueue, t)
    BY <1>9, <2>1 DEF QueueDependent, Ready
  <2>3. /\ readyQueue' \in Seq(TaskIDs)
        /\ Len(readyQueue') <= QueueCap
        /\ Members(readyQueue') \subseteq {x \in TaskIDs : Ready(x)}
    <3>1. CASE readyQueue' = readyQueue
      BY <3>1 DEF ChannelsOK, OnlyReadyTasksUnderWay, Members
    <3>2. CASE /\ Ready(t)
               /\ Len(readyQueue) < QueueCap
               /\ readyQueue' = Append(readyQueue, t)
      <4>1. /\ readyQueue' \in Seq(TaskIDs)
            /\ Len(readyQueue') <= QueueCap
            /\ Members(readyQueue') = Members(readyQueue) \union {t}
        BY <2>1, <3>2, MembersAppend, CapType DEF ChannelsOK
      <4> QED BY <2>1, <3>2, <4>1 DEF OnlyReadyTasksUnderWay
    <3> QED BY <2>2, <3>1, <3>2
  <2>4. ChannelsOK'
    BY <1>9, <2>3 DEF QueueDependent, ChannelsOK
  <2>5. GraphOK' /\ GoroutinesOK'
    BY <1>9, GraphKept, GoroutinesKept DEF QueueDependent
  <2>6. CollectorOK'
    BY <1>9, <2>1 DEF QueueDependent, CollectorOK
  <2>7. OutcomesOK'
    BY <1>9, <2>1 DEF QueueDependent, OutcomesOK, ctxVars
  <2>8. \A x : Ready(x) => Ready(x)'
    BY <1>9, ReadyStays DEF QueueDependent, setupVars
  <2>9. Members(readyQueue)' \subseteq {x \in TaskIDs : Ready(x)'}
    BY <2>3, <2>8 DEF Members
  <2>10. OnlyReadyTasksUnderWay'
    BY <1>9, <2>8, <2>9
    DEF QueueDependent, OnlyReadyTasksUnderWay, mainVars, workerVars
  <2>11. CompletedMeansSucceeded' /\ NothingBeforeStart' /\ CollectorHasTask'
    BY <1>9 DEF QueueDependent, CompletedMeansSucceeded, NothingBeforeStart,
       CollectorHasTask, mainVars
  <2> QED BY <2>4, <2>5, <2>6, <2>7, <2>10, <2>11
<1> QED BY <1>1, <1>2, <1>3, <1>4, <1>5, <1>6, <1>7, <1>8, <1>9 DEF Collector

\* Stop and the end of the context keep the invariant.
LEMMA EnvironmentStep == IndInv /\ Environment => IndInv'
<1> SUFFICES ASSUME IndInv, Environment PROVE IndInv'
  OBVIOUS
<1> USE DEF IndInv, TypeOK, Environment, Stop, CancelCtx
<1>1. GraphOK' /\ ChannelsOK' /\ GoroutinesOK' /\ CollectorOK'
  BY GraphKept, ChannelsKept, GoroutinesKept, CollectorKept
<1>2. OutcomesOK'
  BY DEF OutcomesOK, history
<1>3. OnlyReadyTasksUnderWay'
  BY UnderWayKept DEF setupVars, mainVars, workerVars, collVars
<1>4. CompletedMeansSucceeded' /\ NothingBeforeStart' /\ CollectorHasTask'
  BY DEF CompletedMeansSucceeded, NothingBeforeStart, CollectorHasTask,
     mainVars, workerVars, collVars, history
<1> QED BY <1>1, <1>2, <1>3, <1>4

\* So does a step that changes nothing.
LEMMA StutteringStep == IndInv /\ UNCHANGED vars => IndInv'
<1> SUFFICES ASSUME IndInv, UNCHANGED vars PROVE IndInv'
  OBVIOUS
<1> USE DEF IndInv, TypeOK, vars
<1>1. GraphOK' /\ ChannelsOK' /\ GoroutinesOK' /\ CollectorOK' /\ OutcomesOK'
  BY GraphKept, ChannelsKept, GoroutinesKept, CollectorKept, OutcomesKept
<1>2. OnlyReadyTasksUnderWay'
  BY UnderWayKept DEF setupVars, mainVars, workerVars, collVars
<1>3. CompletedMeansSucceeded' /\ NothingBeforeStart' /\ CollectorHasTask'
  BY DEF CompletedMeansSucceeded, NothingBeforeStart, CollectorHasTask,
     mainVars, workerVars, collVars, history
<1> QED BY <1>1, <1>2, <1>3

\* Every behaviour of the scheduler keeps the inductive invariant.
THEOREM Invariance == Spec => []IndInv
<1>1. IndInv /\ [Next]_vars => IndInv'
  BY SetupStep, MainStep, WorkerStep, CollectorStep, EnvironmentStep,
     StutteringStep
  DEF Next, Terminated
<1> QED BY InitIndInv, <1>1, PTL DEF Spec

\* The scheduler's variables always have their types, and neither channel ever
\* holds more than MaxWorkers * 2 tasks.
THEOREM TypeCorrect == Spec => []TypeOK
<1>1. IndInv => TypeOK
  BY DEF IndInv
<1> QED BY Invariance, <1>1, PTL

\* A worker only builds a task after every dependency of it was built
\* successfully: for every graph, in both failure modes, under every
\* interleaving, cancellation included (emerge.go:277).
THEOREM DependenciesAlwaysFirst == Spec => []DependenciesFirst
<1>1. IndInv => DependenciesFirst
  BY DEF IndInv, OnlyReadyTasksUnderWay, CompletedMeansSucceeded, Ready,
     areDependenciesCompleted, DependenciesFirst, Held
<1> QED BY Invariance, <1>1, PTL

(***************************************************************************)
(* The scheduler implements OrderedBuilds.                                 *)
(***************************************************************************)
\* When Start is about to return the collector has answered, and when it has
\* returned no worker is left (scheduler.go, Start and worker).
THEOREM AlwaysQuietAtEnd == Spec => []QuietAtEnd
<1>1. Init => QuietAtEnd
  BY DEF Init, QuietAtEnd
<1>2. ASSUME IndInv, QuietAtEnd, [Next]_vars PROVE QuietAtEnd'
  <2>1. CASE Setup
    BY <1>2, <2>1 DEF IndInv, NothingBeforeStart, QuietAtEnd, Setup, AddTask,
       AddDependency, Start, StartCycle, mainVars, workerVars, collVars
  <2>2. CASE Main
    BY <1>2, <2>2 DEF QuietAtEnd, Main, QueueReadyTask, SendReady,
       FinishStart, ReturnStart, mainVars, workerVars, collVars
  <2>3. CASE \E w \in Workers : Worker(w)
    BY <1>2, <2>3 DEF IndInv, TypeOK, GoroutinesOK, QuietAtEnd, Worker,
       WorkerExit, WorkerReceive, WorkerRefuse, WorkerAccept, BeginBuild,
       EndBuild, SendResult, mainVars, collVars
  <2>4. CASE Collector
    BY <1>2, <2>4 DEF QuietAtEnd, Collector, CollectEnd, CollectCanceled,
       CollectReceive, CollectFailure, CollectNoFailure, CancelRead,
       CancelWrite, CancelEnd, CollectCompleted, CollectNotCompleted, Deliver,
       QueueDependent, QueueDependentsEnd, mainVars, workerVars
  <2>5. CASE Environment \/ Terminated \/ UNCHANGED vars
    BY <1>2, <2>5 DEF QuietAtEnd, Environment, Stop, CancelCtx, Terminated,
       vars, mainVars, workerVars, collVars
  <2> QED BY <1>2, <2>1, <2>2, <2>3, <2>4, <2>5 DEF Next
<1> QED BY Invariance, <1>1, <1>2, PTL DEF Spec

\* A new scheduler is an empty plan.
LEMMA PromiseInit == Init => Promise!Init
<1> SUFFICES ASSUME Init PROVE Promise!Init
  OBVIOUS
<1>1. NeedsBar = [t \in TaskIDs |-> {}]
  BY DEF Init, NeedsBar, Members
<1>2. LaneBar = [w \in Workers |-> NoTask]
  BY DEF Init, LaneBar, Building
<1>3. PhaseBar = "planning" /\ succeeded = {} /\ HaltedBar = FALSE
  BY DEF Init, PhaseBar, HaltedBar
<1> QED BY <1>1, <1>2, <1>3 DEF Promise!Init

\* Steps that touch nothing the promise speaks about are stuttering steps.
LEMMA PromiseStutter ==
    ASSUME UNCHANGED <<failureMode, hasFailed, succeeded>>,
           UNCHANGED <<PhaseBar, NeedsBar, LaneBar>>
    PROVE  UNCHANGED Promise!vars
BY DEF Promise!vars, HaltedBar

\* AddTask, AddDependency and Start plan and launch.
LEMMA PromiseSetup == IndInv /\ Setup => [Promise!Next]_(Promise!vars)
<1> SUFFICES ASSUME IndInv, Setup PROVE [Promise!Next]_(Promise!vars)
  OBVIOUS
<1> USE DEF mainVars, workerVars, collVars, history, setupVars
<1>0. main = "setup" /\ PhaseBar = "planning"
  BY DEF Setup, AddTask, AddDependency, Start, StartCycle, PhaseBar
<1>1. ASSUME NEW t \in TaskIDs, AddTask(t) PROVE UNCHANGED Promise!vars
  <2>1. UNCHANGED <<failureMode, hasFailed, succeeded>>
    BY <1>1 DEF AddTask
  <2>2. UNCHANGED <<PhaseBar, NeedsBar, LaneBar>>
    BY <1>1 DEF AddTask, PhaseBar, NeedsBar, LaneBar, Building
  <2> QED BY <2>1, <2>2, PromiseStutter
<1>2. ASSUME NEW t \in TaskIDs, NEW d \in TaskIDs, AddDependency(t, d)
      PROVE  Promise!Plan(t, d)
  <2>1. deps \in [TaskIDs -> Seq(TaskIDs)]
    BY DEF IndInv, TypeOK, GraphOK
  <2>2. deps' = [deps EXCEPT ![t] = Append(@, d)]
    BY <1>2 DEF AddDependency
  <2>3. Members(Append(deps[t], d)) = Members(deps[t]) \union {d}
    BY <2>1, MembersAppend
  <2>4. NeedsBar' = [NeedsBar EXCEPT ![t] = @ \union {d}]
    BY <2>1, <2>2, <2>3 DEF NeedsBar
  <2>5. UNCHANGED <<PhaseBar, LaneBar, succeeded, HaltedBar>>
    BY <1>2 DEF AddDependency, PhaseBar, LaneBar, Building, HaltedBar
  <2> QED BY <1>0, <2>4, <2>5 DEF Promise!Plan
<1>3. ASSUME Start \/ StartCycle PROVE Promise!Launch
  <2>1. PhaseBar' \in {"building", "over"}
    BY <1>3 DEF Start, StartCycle, PhaseBar
  <2>2. UNCHANGED <<NeedsBar, succeeded, HaltedBar>>
    BY <1>3 DEF Start, StartCycle, NeedsBar, HaltedBar
  <2>3. UNCHANGED LaneBar
    <3>1. \A w \in Workers : ~Building(w)
      BY <1>0 DEF IndInv, NothingBeforeStart, Building
    <3>2. \A w \in Workers : ~Building(w)'
      BY <1>3, <3>1 DEF Start, StartCycle, Building
    <3> QED BY <3>1, <3>2 DEF LaneBar
  <2> QED BY <1>0, <2>1, <2>2, <2>3 DEF Promise!Launch
<1> QED BY <1>1, <1>2, <1>3 DEF Setup, Promise!Next

\* queueReadyTasks is invisible; the return of Start finishes the run.
LEMMA PromiseMain == IndInv /\ Main => [Promise!Next]_(Promise!vars)
<1> SUFFICES ASSUME IndInv, Main PROVE [Promise!Next]_(Promise!vars)
  OBVIOUS
<1> USE DEF mainVars, workerVars, collVars, history, setupVars
<1>1. ASSUME (\E t \in TaskIDs : QueueReadyTask(t)) \/ SendReady \/ FinishStart
      PROVE  UNCHANGED Promise!vars
  <2>1. UNCHANGED <<failureMode, hasFailed, succeeded, deps, wpc, wtask>>
    BY <1>1 DEF QueueReadyTask, SendReady, FinishStart
  <2>2. UNCHANGED <<NeedsBar, LaneBar>>
    BY <2>1 DEF NeedsBar, LaneBar, Building
  <2>3. UNCHANGED PhaseBar
    BY <1>1 DEF QueueReadyTask, SendReady, FinishStart, PhaseBar
  <2> QED BY <2>1, <2>2, <2>3, PromiseStutter
<1>2. ASSUME ReturnStart PROVE Promise!Finish
  <2>1. PhaseBar = "building" /\ PhaseBar' = "over"
    BY <1>2 DEF ReturnStart, PhaseBar
  <2>2. UNCHANGED <<NeedsBar, LaneBar, succeeded, HaltedBar>>
    BY <1>2 DEF ReturnStart, NeedsBar, LaneBar, Building, HaltedBar
  <2>3. \A w \in Workers : LaneBar[w] = NoTask
    BY <1>2 DEF ReturnStart, LaneBar, Building
  <2> QED BY <2>1, <2>2, <2>3 DEF Promise!Finish, Promise!Free
<1> QED BY <1>1, <1>2 DEF Main, Promise!Next

\* A worker begins a build when it accepts a task and ends it when BuildFunc
\* has returned; its other steps are invisible.
LEMMA PromiseWorker ==
    ASSUME IndInv, QuietAtEnd, NEW w \in Workers, Worker(w)
    PROVE  [Promise!Next]_(Promise!vars)
<1> USE DEF mainVars, workerVars, collVars, history, setupVars
<1>0. wpc[w] \notin {"none", "exited"} /\ main = main' /\ PhaseBar = "building"
  BY DEF Worker, WorkerExit, WorkerReceive, WorkerRefuse, WorkerAccept,
     BeginBuild, EndBuild, SendResult, IndInv, NothingBeforeStart, QuietAtEnd,
     PhaseBar
<1>1. UNCHANGED <<PhaseBar, NeedsBar, HaltedBar>>
  BY <1>0 DEF Worker, WorkerExit, WorkerReceive, WorkerRefuse, WorkerAccept,
     BeginBuild, EndBuild, SendResult, PhaseBar, NeedsBar, HaltedBar
<1>2. /\ wpc \in [Workers -> Held \union {"none", "select", "exited"}]
      /\ wtask \in [Workers -> TaskIDs \union {NoTask}]
  BY DEF IndInv, TypeOK, GoroutinesOK
<1>3. ASSUME \/ WorkerExit(w) \/ WorkerReceive(w) \/ WorkerRefuse(w)
             \/ BeginBuild(w) \/ SendResult(w)
      PROVE  UNCHANGED Promise!vars
  <2>1. \A v \in Workers : Building(v)' = Building(v)
                           /\ (Building(v) => wtask'[v] = wtask[v])
    BY <1>2, <1>3 DEF WorkerExit, WorkerReceive, WorkerRefuse, BeginBuild,
       SendResult, Building
  <2>2. UNCHANGED LaneBar
    BY <2>1 DEF LaneBar
  <2>3. UNCHANGED succeeded
    BY <1>3 DEF WorkerExit, WorkerReceive, WorkerRefuse, BeginBuild, SendResult
  <2> QED BY <1>1, <2>2, <2>3 DEF Promise!vars
<1>4. ASSUME WorkerAccept(w) PROVE Promise!Begin(w, wtask[w]) /\ wtask[w] \in TaskIDs
  <2>1. Ready(wtask[w])
    BY <1>4 DEF WorkerAccept, IndInv, OnlyReadyTasksUnderWay, Held
  <2>2. NeedsBar[wtask[w]] \subseteq succeeded
    BY <2>1 DEF Ready, areDependenciesCompleted, NeedsBar, IndInv,
       CompletedMeansSucceeded
  <2>3. LaneBar[w] = NoTask /\ ~HaltedBar
    BY <1>4 DEF WorkerAccept, LaneBar, Building, HaltedBar
  <2>4. LaneBar' = [LaneBar EXCEPT ![w] = wtask[w]]
    BY <1>2, <1>4 DEF WorkerAccept, LaneBar, Building
  <2>5. UNCHANGED succeeded
    BY <1>4 DEF WorkerAccept
  <2>6. wtask[w] \in TaskIDs
    BY <2>1 DEF Ready
  <2> QED BY <1>0, <1>1, <2>2, <2>3, <2>4, <2>5, <2>6
          DEF Promise!Begin, Promise!Free
<1>5. ASSUME NEW err \in BOOLEAN, EndBuild(w, err) PROVE Promise!End(w)
  <2>1. LaneBar[w] = wtask[w] /\ wtask[w] # NoTask
    <3>1. Ready(wtask[w])
      BY <1>5 DEF EndBuild, IndInv, OnlyReadyTasksUnderWay, Held
    <3> QED BY <1>5, <3>1, TaskIDsAssumption DEF EndBuild, LaneBar, Building, Ready
  <2>2. LaneBar' = [LaneBar EXCEPT ![w] = NoTask]
    BY <1>2, <1>5 DEF EndBuild, LaneBar, Building
  <2>3. succeeded' \in {succeeded, succeeded \union {LaneBar[w]}}
    BY <1>5, <2>1 DEF EndBuild
  <2> QED BY <1>0, <1>1, <2>1, <2>2, <2>3 DEF Promise!End, Promise!Free
<1> QED BY <1>3, <1>4, <1>5 DEF Worker, Promise!Next

\* Recording a failure in Stop mode halts the run; everything else the
\* collector does is invisible.
LEMMA PromiseCollector ==
    IndInv /\ QuietAtEnd /\ Collector => [Promise!Next]_(Promise!vars)
<1> SUFFICES ASSUME IndInv, QuietAtEnd, Collector
             PROVE  [Promise!Next]_(Promise!vars)
  OBVIOUS
<1> USE DEF mainVars, workerVars, collVars, history, setupVars
<1>1. UNCHANGED <<failureMode, deps, wpc, wtask, main, succeeded>>
  BY DEF Collector, CollectEnd, CollectCanceled, CollectReceive,
     CollectFailure, CollectNoFailure, CancelRead, CancelWrite, CancelEnd,
     CollectCompleted, CollectNotCompleted, Deliver, QueueDependent,
     QueueDependentsEnd
<1>2. UNCHANGED <<PhaseBar, NeedsBar, LaneBar>>
  BY <1>1 DEF PhaseBar, NeedsBar, LaneBar, Building
<1>3. CASE HaltedBar' = HaltedBar
  BY <1>1, <1>2, <1>3 DEF Promise!vars
<1>4. CASE HaltedBar' # HaltedBar
  <2>1. hasFailed' # hasFailed
    BY <1>1, <1>4 DEF HaltedBar
  <2>2. CollectFailure
    BY <2>1 DEF Collector, CollectEnd, CollectCanceled, CollectReceive,
       CollectFailure, CollectNoFailure, CancelRead, CancelWrite, CancelEnd,
       CollectCompleted, CollectNotCompleted, Deliver, QueueDependent,
       QueueDependentsEnd
  <2>3. PhaseBar = "building"
    BY <2>2 DEF CollectFailure, QuietAtEnd, IndInv, NothingBeforeStart,
       PhaseBar
  <2>4. HaltedBar' = TRUE
    <3>1. hasFailed' = TRUE
      BY <2>2 DEF CollectFailure
    <3> QED BY <1>1, <1>4, <3>1 DEF HaltedBar
  <2> QED BY <1>1, <1>2, <2>3, <2>4 DEF Promise!Halt, Promise!Next
<1> QED BY <1>3, <1>4

\* Interruptions and idle steps are invisible.
LEMMA PromiseEnvironment ==
    Environment \/ Terminated \/ UNCHANGED vars => UNCHANGED Promise!vars
<1> SUFFICES ASSUME Environment \/ Terminated \/ UNCHANGED vars
             PROVE  UNCHANGED Promise!vars
  OBVIOUS
<1>1. UNCHANGED <<failureMode, hasFailed, succeeded, deps, wpc, wtask, main>>
  BY DEF Environment, Stop, CancelCtx, Terminated, vars, mainVars, workerVars,
     collVars, history, setupVars
<1>2. UNCHANGED <<PhaseBar, NeedsBar, LaneBar>>
  BY <1>1 DEF PhaseBar, NeedsBar, LaneBar, Building
<1> QED BY <1>1, <1>2, PromiseStutter

\* For every graph, number of workers, failure and interruption the scheduler
\* implements OrderedBuilds: see ImplementsPromise.
THEOREM Refinement == Spec => ImplementsPromise
<1>1. ASSUME IndInv, QuietAtEnd, [Next]_vars
      PROVE  [Promise!Next]_(Promise!vars)
  BY <1>1, PromiseSetup, PromiseMain, PromiseWorker, PromiseCollector,
     PromiseEnvironment
  DEF Next
<1> QED BY PromiseInit, Invariance, AlwaysQuietAtEnd, <1>1, PTL
        DEF Spec, Promise!Spec, ImplementsPromise

(***************************************************************************)
(* Nothing is built twice, and every result is counted once.               *)
(***************************************************************************)
\* A queue without repetitions stays so exactly when what is added is new ...
LEMMA NoRepeatAppend ==
    ASSUME NEW S, NEW s \in Seq(S), NEW e \in S
    PROVE  NoRepeat(Append(s, e)) <=> NoRepeat(s) /\ e \notin Members(s)
<1> DEFINE a == Append(s, e)
<1>1. /\ Len(s) \in Nat /\ Len(a) = Len(s) + 1 /\ a[Len(s) + 1] = e
      /\ \A i \in 1..Len(s) : a[i] = s[i]
  OBVIOUS
<1> HIDE DEF a
<1>2. ASSUME NoRepeat(a) PROVE NoRepeat(s) /\ e \notin Members(s)
  <2>1. NoRepeat(s)
    BY <1>1, <1>2 DEF NoRepeat
  <2>2. ASSUME NEW i \in 1..Len(s), s[i] = e PROVE FALSE
    BY <1>1, <1>2, <2>2 DEF NoRepeat
  <2> QED BY <2>1, <2>2 DEF Members
<1>3. ASSUME NoRepeat(s), e \notin Members(s) PROVE NoRepeat(a)
  <2>1. \A i \in 1..Len(s) : s[i] # e
    BY <1>3 DEF Members
  <2>2. ASSUME NEW i \in 1..Len(a), NEW j \in 1..Len(a), a[i] = a[j] PROVE i = j
    <3>1. CASE i \in 1..Len(s) /\ j \in 1..Len(s)
      BY <1>1, <1>3, <2>2, <3>1 DEF NoRepeat
    <3>2. CASE i = Len(s) + 1 \/ j = Len(s) + 1
      BY <1>1, <2>1, <2>2, <3>2
    <3> QED BY <1>1, <3>1, <3>2
  <2> QED BY <2>2 DEF NoRepeat
<1> QED BY <1>2, <1>3 DEF a

\* ... and what is taken from its front is not in it any more.
LEMMA NoRepeatTail ==
    ASSUME NEW S, NEW s \in Seq(S), s # <<>>
    PROVE  /\ Members(s) = Members(Tail(s)) \union {Head(s)}
           /\ NoRepeat(s) => NoRepeat(Tail(s)) /\ Head(s) \notin Members(Tail(s))
<1> DEFINE t == Tail(s)
<1>1. /\ Len(s) \in Nat \ {0} /\ Len(t) = Len(s) - 1 /\ Head(s) = s[1]
      /\ \A i \in 1..Len(t) : t[i] = s[i + 1]
  OBVIOUS
<1> HIDE DEF t
<1>2. Members(s) = Members(t) \union {Head(s)}
  <2>1. ASSUME NEW i \in 1..Len(s) PROVE s[i] \in Members(t) \union {Head(s)}
    <3>1. CASE i = 1
      BY <1>1, <3>1
    <3>2. CASE i # 1
      <4>1. i - 1 \in 1..Len(t) /\ t[i - 1] = s[i]
        BY <1>1, <3>2
      <4> QED BY <4>1 DEF Members
    <3> QED BY <3>1, <3>2
  <2>2. ASSUME NEW i \in 1..Len(t) PROVE t[i] \in Members(s)
    <3>1. i + 1 \in 1..Len(s) /\ t[i] = s[i + 1]
      BY <1>1
    <3> QED BY <3>1 DEF Members
  <2>3. Head(s) \in Members(s)
    BY <1>1 DEF Members
  <2> QED BY <2>1, <2>2, <2>3 DEF Members
<1>3. ASSUME NoRepeat(s) PROVE NoRepeat(t) /\ Head(s) \notin Members(t)
  <2>1. NoRepeat(t)
    <3>1. ASSUME NEW i \in 1..Len(t), NEW j \in 1..Len(t), t[i] = t[j] PROVE i = j
      <4>1. i + 1 \in 1..Len(s) /\ j + 1 \in 1..Len(s) /\ s[i + 1] = s[j + 1]
        BY <1>1, <3>1
      <4>2. i + 1 = j + 1
        BY <1>3, <4>1 DEF NoRepeat
      <4> QED BY <1>1, <4>2
    <3> QED BY <3>1 DEF NoRepeat
  <2>2. ASSUME NEW i \in 1..Len(t), t[i] = Head(s) PROVE FALSE
    <3>1. i + 1 \in 1..Len(s) /\ 1 \in 1..Len(s) /\ s[i + 1] = s[1] /\ i + 1 # 1
      BY <1>1, <2>2
    <3> QED BY <1>3, <3>1 DEF NoRepeat
  <2> QED BY <2>1, <2>2 DEF Members
<1> QED BY <1>2, <1>3 DEF t

\* Where tasks are, when nothing moves.
LEMMA PlacesKept ==
    ASSUME UNCHANGED <<sending, readyQueue, wtask, results, ctask, delivered>>
    PROVE  /\ UNCHANGED <<Sending, Queued, WithWorkers, Reported, Collecting, Started>>
BY DEF Sending, Queued, WithWorkers, Reported, Collecting, Started

\* The graph, once it is fixed.
LEMMA MirrorKept ==
    ASSUME EdgesMirrored, UNCHANGED setupVars
    PROVE  EdgesMirrored' /\ DistinctEdges' = DistinctEdges
BY DEF EdgesMirrored, DistinctEdges, setupVars

\* A new scheduler has started nothing.
LEMMA InitOnce == Init => OnceInv
<1> SUFFICES ASSUME Init PROVE OnceInv
  OBVIOUS
<1>1. \A t \in TaskIDs : deps[t] = <<>> /\ dependents[t] = <<>>
  BY DEF Init
<1>2. Members(<<>>) = {} /\ NoRepeat(<<>>)
  BY DEF Members, NoRepeat
<1>3. EdgesMirrored
  BY <1>1, <1>2 DEF EdgesMirrored
<1>4. /\ Sending = {} /\ Queued = {} /\ WithWorkers = {} /\ Reported = {} /\ Collecting = {}
      /\ Started = {}
  BY <1>2 DEF Init, Sending, Queued, WithWorkers, Reported, Collecting, Started
<1>5. Holding
  BY <1>4 DEF Init, Holding, Held
<1>6. OnePlace
  BY <1>2, <1>4 DEF Init, OnePlace
<1>7. QueuedOnce /\ BuiltOnce /\ CountExact
  BY <1>4 DEF Init, QueuedOnce, BuiltOnce, CountExact
<1> QED BY <1>3, <1>5, <1>6, <1>7 DEF OnceInv

\* While nothing exists but the graph, only the graph can be wrong.
LEMMA NothingStarted ==
    ASSUME EdgesMirrored', cpc = "none", Holding, UNCHANGED <<sending, readyQueue, wpc, wtask, results,
           ctask, delivered, cpc, todo, completedSet, builds>>
    PROVE  OnceInv'
<1>1. /\ Started = {} /\ todo = {} /\ completedSet = {} /\ \A t \in TaskIDs : builds[t] = 0
  BY DEF Holding
<1>2. UNCHANGED <<Sending, Queued, WithWorkers, Reported, Collecting, Started>>
  BY PlacesKept
<1>3. Holding'
  BY <1>1, <1>2 DEF Holding
<1>4. /\ Sending = {} /\ Queued = {} /\ WithWorkers = {} /\ Reported = {} /\ Collecting = {}
      /\ delivered = {}
  BY <1>1 DEF Started
<1>5. \A w \in Workers : wtask[w] = NoTask
  BY <1>4 DEF WithWorkers
<1>6. NoRepeat(readyQueue) /\ NoRepeat(results)
  BY <1>4 DEF Queued, Reported, Members, NoRepeat
<1>7. OnePlace'
  BY <1>2, <1>4, <1>5, <1>6 DEF OnePlace, NoRepeat
<1>8. QueuedOnce' /\ BuiltOnce' /\ CountExact'
  BY <1>1 DEF QueuedOnce, BuiltOnce, CountExact
<1> QED BY <1>3, <1>7, <1>8 DEF OnceInv

\* AddTask, AddDependency and the beginning of Start.
LEMMA SetupOnce == IndInv /\ OnceInv /\ Setup => OnceInv'
<1> SUFFICES ASSUME IndInv, OnceInv, Setup PROVE OnceInv'
  OBVIOUS
<1>0. cpc = "none" /\ EdgesMirrored /\ Holding /\ GraphOK
  BY DEF IndInv, TypeOK, NothingBeforeStart, OnceInv, Setup, AddTask, AddDependency, Start, StartCycle
<1>1. ASSUME NEW t \in TaskIDs, AddTask(t) PROVE OnceInv'
  <2>1. EdgesMirrored'
    BY <1>0, <1>1 DEF AddTask, EdgesMirrored, DistinctEdges
  <2> QED BY <1>0, <1>1, <2>1, NothingStarted DEF AddTask, mainVars, workerVars, collVars, history
<1>2. ASSUME NEW t \in TaskIDs, NEW e \in TaskIDs, AddDependency(t, e) PROVE OnceInv'
  <2>1. /\ deps' = [deps EXCEPT ![t] = Append(deps[t], e)]
        /\ dependents' = [dependents EXCEPT ![e] = Append(dependents[e], t)]
        /\ tasks' = tasks /\ e \in tasks /\ t \in tasks
        /\ deps \in [TaskIDs -> Seq(TaskIDs)] /\ dependents \in [TaskIDs -> Seq(TaskIDs)]
    BY <1>0, <1>2 DEF AddDependency, GraphOK
  <2>2. /\ Members(deps'[t]) = Members(deps[t]) \union {e}
        /\ \A x \in TaskIDs : x # t => deps'[x] = deps[x]
        /\ NoRepeat(deps'[t]) <=> NoRepeat(deps[t]) /\ e \notin Members(deps[t])
    BY <2>1, MembersAppend, NoRepeatAppend
  <2>3. /\ Members(dependents'[e]) = Members(dependents[e]) \union {t}
        /\ \A x \in TaskIDs : x # e => dependents'[x] = dependents[x]
        /\ NoRepeat(dependents'[e]) <=> NoRepeat(dependents[e]) /\ t \notin Members(dependents[e])
    BY <2>1, MembersAppend, NoRepeatAppend
  <2>4. \A x \in TaskIDs : Members(deps'[x]) \union Members(dependents'[x]) \subseteq tasks'
    BY <1>0, <2>1, <2>2, <2>3 DEF EdgesMirrored
  <2>5. \A x \in TaskIDs, y \in TaskIDs : y \in Members(deps'[x]) <=> x \in Members(dependents'[y])
    <3>1. \A x \in TaskIDs, y \in TaskIDs : y \in Members(deps[x]) <=> x \in Members(dependents[y])
      BY <1>0 DEF EdgesMirrored
    <3>2. \A x \in TaskIDs, y \in TaskIDs :
             y \in Members(deps'[x]) <=> y \in Members(deps[x]) \/ (x = t /\ y = e)
      BY <2>2
    <3>3. \A x \in TaskIDs, y \in TaskIDs :
             x \in Members(dependents'[y]) <=> x \in Members(dependents[y]) \/ (x = t /\ y = e)
      BY <2>3
    <3> QED BY <3>1, <3>2, <3>3
  <2>6. ASSUME DistinctEdges', NEW x \in TaskIDs PROVE NoRepeat(dependents'[x])
    <3>1. DistinctEdges /\ e \notin Members(deps[t])
      BY <2>2, <2>6 DEF DistinctEdges
    <3>2. NoRepeat(dependents[x]) /\ t \notin Members(dependents[e])
      BY <1>0, <3>1 DEF EdgesMirrored
    <3> QED BY <2>3, <3>2
  <2>7. EdgesMirrored'
    BY <2>4, <2>5, <2>6 DEF EdgesMirrored, Members, NoRepeat
  <2> QED BY <1>0, <1>2, <2>7, NothingStarted DEF AddDependency, mainVars, workerVars, collVars, history
<1>3. ASSUME StartCycle PROVE OnceInv'
  <2>1. EdgesMirrored'
    BY <1>0, <1>3, MirrorKept DEF StartCycle
  <2> QED BY <1>0, <1>3, <2>1, NothingStarted DEF StartCycle, workerVars, history
<1>4. ASSUME Start PROVE OnceInv'
  <2>1. EdgesMirrored'
    BY <1>0, <1>4, MirrorKept DEF Start
  <2>2. UNCHANGED <<sending, readyQueue, wtask, results, ctask, delivered, tasks, completedSet, builds, deps>>
    BY <1>4 DEF Start, setupVars, history
  <2>3. /\ Started = {} /\ completedSet = {} /\ \A t \in TaskIDs : builds[t] = 0
    BY <1>0 DEF Holding
  <2>4. UNCHANGED <<Sending, Queued, WithWorkers, Reported, Collecting, Started>>
    BY <2>2, PlacesKept
  <2>5. /\ Sending = {} /\ Queued = {} /\ WithWorkers = {} /\ Reported = {} /\ Collecting = {}
        /\ delivered = {}
    BY <2>3 DEF Started
  <2>6. (\A w \in Workers : wtask[w] = NoTask) /\ ctask = NoTask
    BY <2>5 DEF WithWorkers, Collecting
  <2>7. Holding'
    <3>1. \A w \in Workers : wtask'[w] # NoTask <=> wpc'[w] \in Held
      BY <1>4, <2>2, <2>6 DEF Start, Held
    <3>2. todo' \union Started' \subseteq tasks' /\ cpc' = "select" /\ ctask' = NoTask /\ completedSet' = {} /\ Started' = {}
      BY <1>4, <2>2, <2>3, <2>4, <2>6 DEF Start
    <3> QED BY <3>1, <3>2 DEF Holding
  <2>8. NoRepeat(readyQueue) /\ NoRepeat(results)
    BY <2>5 DEF Queued, Reported, Members, NoRepeat
  <2>9. OnePlace'
    BY <2>2, <2>4, <2>5, <2>6, <2>8 DEF OnePlace, NoRepeat
  <2>10. QueuedOnce' /\ BuiltOnce'
    BY <1>4, <2>2, <2>3, <2>4 DEF Start, QueuedOnce, BuiltOnce
  <2>11. CountExact'
    <3>1. tasks' \ delivered' = tasks /\ ctask' = NoTask /\ pendingCount' = Cardinality(tasks)
      BY <1>4, <2>2, <2>5, <2>6 DEF Start
    <3>2. Cardinality(tasks) \in Nat
      BY <1>0, CountType DEF GraphOK
    <3> QED BY <3>1, <3>2 DEF CountExact
  <2> QED BY <2>1, <2>7, <2>9, <2>10, <2>11 DEF OnceInv
<1> QED BY <1>1, <1>2, <1>3, <1>4 DEF Setup

\* A step that moves no task from one place to another.
LEMMA StillOnce ==
    ASSUME OnceInv,
           UNCHANGED <<setupVars, sending, readyQueue, wtask, results, ctask, delivered,
                       pendingCount, completedSet, builds>>,
           todo' \subseteq todo,
           Members(cqueue') \subseteq Members(cqueue), NoRepeat(cqueue) => NoRepeat(cqueue'),
           \A w \in Workers : wpc'[w] \in Held <=> wpc[w] \in Held,
           \A w \in Workers : wpc[w] \in {"building", "sending"} => wpc'[w] \in {"building", "sending"},
           cpc' \in {"failed?", "canceling", "completed?"} <=> cpc \in {"failed?", "canceling", "completed?"},
           cpc' = "dependents" <=> cpc = "dependents",
           cpc' = "none" <=> cpc = "none"
    PROVE  OnceInv'
<1>1. EdgesMirrored' /\ DistinctEdges' = DistinctEdges /\ tasks' = tasks /\ deps' = deps /\ dependents' = dependents
  BY MirrorKept DEF OnceInv, setupVars
<1>2. UNCHANGED <<Sending, Queued, WithWorkers, Reported, Collecting, Started>>
  BY PlacesKept
<1>3. Holding'
  <2>1. Holding
    BY DEF OnceInv
  <2>2. ctask' # NoTask <=> cpc' \in {"failed?", "canceling", "completed?", "dependents"}
    BY <2>1 DEF Holding
  <2>3. \A w \in Workers : wtask'[w] # NoTask <=> wpc'[w] \in Held
    BY <2>1 DEF Holding
  <2>4. \A t \in Started' : Members(deps'[t]) \subseteq completedSet'
    BY <1>1, <1>2, <2>1 DEF Holding
  <2>5. /\ todo' \union Started' \subseteq tasks'
        /\ cpc' = "dependents" => Members(cqueue') \subseteq tasks'
        /\ completedSet' \subseteq delivered' \union (IF cpc' = "dependents" THEN Collecting' ELSE {})
        /\ cpc' = "none" => /\ Started' = {} /\ todo' = {} /\ completedSet' = {}
                            /\ \A t \in TaskIDs : builds'[t] = 0
    BY <1>1, <1>2, <2>1 DEF Holding
  <2> QED BY <2>2, <2>3, <2>4, <2>5 DEF Holding, Members
<1>4. ASSUME DistinctEdges PROVE OnePlace' /\ QueuedOnce' /\ BuiltOnce' /\ CountExact'
  <2>1. OnePlace /\ QueuedOnce /\ BuiltOnce /\ CountExact
    BY <1>4 DEF OnceInv
  <2>2. OnePlace'
    BY <1>2, <2>1 DEF OnePlace, NoRepeat
  <2>3. QueuedOnce'
    <3>1. \A t \in todo' : deps'[t] = <<>> => t \notin Started'
      BY <1>1, <1>2, <2>1 DEF QueuedOnce
    <3>2. ASSUME cpc' = "dependents"
          PROVE  NoRepeat(cqueue') /\ Members(cqueue') \subseteq Members(dependents'[ctask']) \ Started'
      BY <1>1, <1>2, <2>1, <3>2 DEF QueuedOnce
    <3> QED BY <3>1, <3>2 DEF QueuedOnce
  <2>4. BuiltOnce'
    BY <1>2, <2>1 DEF BuiltOnce
  <2>5. CountExact'
    BY <1>1, <2>1 DEF CountExact
  <2> QED BY <2>2, <2>3, <2>4, <2>5
<1> QED BY <1>1, <1>3, <1>4 DEF OnceInv

\* BuildFunc is entered: the worker has the task, so nobody has built it.
LEMMA BeginOnce ==
    ASSUME IndInv, OnceInv, NEW w \in Workers, BeginBuild(w)
    PROVE  OnceInv'
<1>0. /\ wtask[w] \in TaskIDs /\ builds \in [TaskIDs -> Nat]
      /\ wpc \in [Workers -> Held \union {"none", "select", "exited"}] /\ wpc[w] = "accepted"
  BY DEF IndInv, TypeOK, GoroutinesOK, OutcomesOK, OnlyReadyTasksUnderWay, Ready, BeginBuild, Held
<1>1. UNCHANGED <<setupVars, sending, readyQueue, wtask, results, ctask, delivered, todo,
                  pendingCount, completedSet, cqueue, cpc>>
  BY DEF BeginBuild, mainVars, collVars
<1>2. EdgesMirrored' /\ DistinctEdges' = DistinctEdges /\ tasks' = tasks /\ deps' = deps /\ dependents' = dependents
  BY <1>1, MirrorKept DEF OnceInv, setupVars
<1>3. UNCHANGED <<Sending, Queued, WithWorkers, Reported, Collecting, Started>>
  BY <1>1, PlacesKept
<1>4. Holding /\ wtask[w] \in WithWorkers /\ WithWorkers \subseteq Started
  BY <1>0, TaskIDsAssumption DEF OnceInv, WithWorkers, Started
<1>5. Holding'
  <2>1. \A v \in Workers : wtask'[v] # NoTask <=> wpc'[v] \in Held
    BY <1>0, <1>1, <1>4 DEF Holding, BeginBuild, Held
  <2>2. cpc # "none"
    BY <1>4 DEF Holding
  <2>3. \A t \in Started' : Members(deps'[t]) \subseteq completedSet'
    BY <1>1, <1>2, <1>3, <1>4 DEF Holding
  <2> QED BY <1>1, <1>2, <1>3, <1>4, <2>1, <2>2, <2>3 DEF Holding, Members
<1>6. ASSUME DistinctEdges PROVE OnePlace' /\ QueuedOnce' /\ BuiltOnce' /\ CountExact'
  <2>1. OnePlace /\ QueuedOnce /\ BuiltOnce /\ CountExact
    BY <1>6 DEF OnceInv
  <2>2. OnePlace'
    BY <1>1, <1>3, <2>1 DEF OnePlace, NoRepeat
  <2>3. QueuedOnce'
    BY <1>1, <1>2, <1>3, <2>1 DEF QueuedOnce, NoRepeat, Members
  <2>4. BuiltOnce'
    <3>1. builds[wtask[w]] = 0
      <4>1. wtask[w] \notin Reported \union Collecting \union delivered
        BY <1>4, <2>1 DEF OnePlace
      <4>2. ASSUME NEW v \in Workers, wtask[v] = wtask[w], wpc[v] \in {"building", "sending"} PROVE FALSE
        <5>1. v = w
          BY <1>0, <2>1, <4>2, TaskIDsAssumption DEF OnePlace
        <5> QED BY <1>0, <4>2, <5>1
      <4> QED BY <1>0, <2>1, <4>1, <4>2 DEF BuiltOnce
    <3>2. builds'[wtask[w]] = 1 /\ wpc'[w] = "building" /\ \A t \in TaskIDs : t # wtask[w] => builds'[t] = builds[t]
      BY <1>0, <3>1 DEF BeginBuild
    <3>3. \A v \in Workers : wpc[v] \in {"building", "sending"} => wpc'[v] = wpc[v]
      BY <1>0 DEF BeginBuild
    <3>4. ASSUME NEW t \in TaskIDs
          PROVE  \/ builds'[t] = 0
                 \/ /\ builds'[t] = 1
                    /\ \/ t \in Reported' \union Collecting' \union delivered'
                       \/ \E v \in Workers : wtask'[v] = t /\ wpc'[v] \in {"building", "sending"}
      <4>1. CASE t = wtask[w]
        BY <1>1, <3>2, <4>1
      <4>2. CASE t # wtask[w]
        BY <1>1, <1>3, <2>1, <3>2, <3>3, <4>2 DEF BuiltOnce
      <4> QED BY <4>1, <4>2
    <3> QED BY <3>4 DEF BuiltOnce
  <2>5. CountExact'
    BY <1>1, <1>2, <2>1 DEF CountExact
  <2> QED BY <2>2, <2>3, <2>4, <2>5
<1> QED BY <1>2, <1>5, <1>6 DEF OnceInv

\* A completed task opens its dependents: none of them can have been started.
LEMMA CompletedOnce ==
    ASSUME IndInv, OnceInv, CollectCompleted
    PROVE  OnceInv'
<1>0. cpc = "completed?" /\ cpc' = "dependents" /\ ctask \in TaskIDs /\ ctask # NoTask
  BY TaskIDsAssumption DEF IndInv, CollectorHasTask, CollectCompleted
<1>1. /\ UNCHANGED <<setupVars, sending, readyQueue, wtask, results, ctask, delivered, todo,
                     pendingCount, builds, wpc>>
      /\ completedSet' = completedSet \union {ctask} /\ cqueue' = dependents[ctask]
  BY DEF CollectCompleted, mainVars, workerVars, history
<1>2. EdgesMirrored' /\ DistinctEdges' = DistinctEdges /\ tasks' = tasks /\ deps' = deps /\ dependents' = dependents
  BY <1>1, MirrorKept DEF OnceInv, setupVars
<1>3. UNCHANGED <<Sending, Queued, WithWorkers, Reported, Collecting, Started>>
  BY <1>1, PlacesKept
<1>4. Holding /\ Collecting = {ctask}
  BY <1>0 DEF OnceInv, Collecting
<1>5. Holding'
  <2>1. \A t \in Started' : Members(deps'[t]) \subseteq completedSet'
    BY <1>1, <1>2, <1>3, <1>4 DEF Holding
  <2>2. completedSet' \subseteq delivered' \union Collecting'
    BY <1>0, <1>1, <1>3, <1>4 DEF Holding
  <2>3. \A w \in Workers : wtask'[w] # NoTask <=> wpc'[w] \in Held
    BY <1>1, <1>4 DEF Holding
  <2>4. Members(cqueue') \subseteq tasks'
    BY <1>0, <1>1, <1>2 DEF OnceInv, EdgesMirrored
  <2> QED BY <1>0, <1>1, <1>2, <1>3, <1>4, <2>1, <2>2, <2>3, <2>4 DEF Holding, Members
<1>6. ASSUME DistinctEdges PROVE OnePlace' /\ QueuedOnce' /\ BuiltOnce' /\ CountExact'
  <2>1. OnePlace /\ QueuedOnce /\ BuiltOnce /\ CountExact
    BY <1>6 DEF OnceInv
  <2>2. OnePlace'
    BY <1>1, <1>3, <2>1 DEF OnePlace, NoRepeat
  <2>3. NoRepeat(dependents[ctask])
    BY <1>0, <1>6 DEF OnceInv, EdgesMirrored
  <2>4. ctask \notin completedSet
    BY <1>0, <1>4, <2>1 DEF Holding, OnePlace
  <2>5. ASSUME NEW t \in Members(dependents[ctask]), t \in Started PROVE FALSE
    <3>1. t \in TaskIDs
      BY <1>4, <2>5 DEF Holding, IndInv, TypeOK, GraphOK
    <3>2. ctask \in Members(deps[t])
      BY <1>0, <2>5, <3>1 DEF OnceInv, EdgesMirrored
    <3> QED BY <1>4, <2>4, <2>5, <3>2 DEF Holding
  <2>6. QueuedOnce'
    <3>1. NoRepeat(cqueue')
      BY <1>1, <2>3
    <3>2. Members(cqueue') \subseteq Members(dependents'[ctask']) \ Started'
      BY <1>1, <1>2, <1>3, <2>5
    <3>3. \A t \in todo' : deps'[t] = <<>> => t \notin Started'
      BY <1>1, <1>2, <1>3, <2>1 DEF QueuedOnce
    <3> QED BY <3>1, <3>2, <3>3 DEF QueuedOnce, NoRepeat, Members
  <2>7. BuiltOnce'
    BY <1>1, <1>3, <2>1 DEF BuiltOnce
  <2>8. CountExact'
    BY <1>0, <1>1, <1>2, <2>1 DEF CountExact
  <2> QED BY <2>2, <2>6, <2>7, <2>8
<1> QED BY <1>2, <1>5, <1>6 DEF OnceInv

\* A task moves on: what is left to show of such a step.
LEMMA MoveOnce ==
    ASSUME OnceInv, UNCHANGED <<Started, setupVars, todo, completedSet, builds>>,
           cpc # "none", cpc' # "none",
           \A w \in Workers : wtask'[w] # NoTask <=> wpc'[w] \in Held,
           ctask' # NoTask <=> cpc' \in {"failed?", "canceling", "completed?", "dependents"},
           delivered \subseteq delivered',
           cpc = "dependents" => cpc' = "dependents" \/ Collecting \subseteq delivered',
           cpc' = "dependents" => cpc = "dependents" /\ UNCHANGED <<cqueue, ctask>>,
           DistinctEdges => OnePlace' /\ BuiltOnce' /\ CountExact'
    PROVE  OnceInv'
<1>1. EdgesMirrored' /\ DistinctEdges' = DistinctEdges /\ tasks' = tasks /\ deps' = deps /\ dependents' = dependents
  BY MirrorKept DEF OnceInv, setupVars
<1>2. Holding'
  <2>1. Holding
    BY DEF OnceInv
  <2>2. completedSet' \subseteq delivered' \union (IF cpc' = "dependents" THEN Collecting' ELSE {})
    BY <2>1 DEF Holding, Collecting
  <2>3. \A t \in Started' : Members(deps'[t]) \subseteq completedSet'
    BY <1>1, <2>1 DEF Holding
  <2> QED BY <1>1, <2>1, <2>2, <2>3 DEF Holding, Members
<1>3. ASSUME DistinctEdges PROVE QueuedOnce'
  <2>1. QueuedOnce
    BY <1>3 DEF OnceInv
  <2> QED BY <1>1, <2>1 DEF QueuedOnce, NoRepeat, Members
<1> QED BY <1>1, <1>2, <1>3 DEF OnceInv

\* main sends: the task enters readyQueue.
LEMMA SendReadyOnce == ASSUME IndInv, OnceInv, SendReady PROVE OnceInv'
<1>0. /\ sending \in TaskIDs /\ sending # NoTask /\ readyQueue \in Seq(TaskIDs) /\ Holding
      /\ readyQueue' = Append(readyQueue, sending) /\ sending' = NoTask
      /\ UNCHANGED <<setupVars, wtask, wpc, results, ctask, cpc, cqueue, delivered, todo, pendingCount, completedSet, builds, tasks>>
  BY TaskIDsAssumption
     DEF IndInv, TypeOK, GoroutinesOK, ChannelsOK, OnceInv, SendReady, setupVars, workerVars, collVars, history
<1>1. /\ Sending = {sending} /\ Sending' = {} /\ Queued' = Queued \union {sending}
      /\ WithWorkers' = WithWorkers /\ Reported' = Reported /\ Collecting' = Collecting
  BY <1>0, MembersAppend DEF Sending, Queued, WithWorkers, Reported, Collecting
<1>2. Started' = Started /\ cpc # "none"
  BY <1>0, <1>1 DEF Started, Holding
<1>3. ASSUME DistinctEdges PROVE OnePlace' /\ BuiltOnce' /\ CountExact'
  <2>1. OnePlace /\ BuiltOnce /\ CountExact
    BY <1>3 DEF OnceInv
  <2>2. NoRepeat(readyQueue') /\ NoRepeat(results')
    <3>1. sending \notin Members(readyQueue) /\ NoRepeat(readyQueue) /\ NoRepeat(results)
      BY <1>1, <2>1 DEF OnePlace, Queued
    <3> QED BY <1>0, <3>1, NoRepeatAppend
  <2>3. OnePlace'
    BY <1>0, <1>1, <2>1, <2>2 DEF OnePlace, NoRepeat
  <2>4. BuiltOnce' /\ CountExact'
    BY <1>0, <1>1, <2>1 DEF BuiltOnce, CountExact
  <2> QED BY <2>3, <2>4
<1> QED BY <1>0, <1>1, <1>2, <1>3, MoveOnce DEF Holding

\* A worker receives: the task leaves readyQueue.
LEMMA WorkerReceiveOnce == ASSUME IndInv, OnceInv, NEW w \in Workers, WorkerReceive(w) PROVE OnceInv'
<1> DEFINE t == Head(readyQueue)
<1>0. /\ readyQueue \in Seq(TaskIDs) /\ readyQueue # <<>> /\ Holding
      /\ readyQueue' = Tail(readyQueue) /\ wpc[w] = "select"
      /\ wtask \in [Workers -> TaskIDs \union {NoTask}] /\ wtask' = [wtask EXCEPT ![w] = t]
      /\ wpc \in [Workers -> Held \union {"none", "select", "exited"}] /\ wpc' = [wpc EXCEPT ![w] = "received"]
      /\ UNCHANGED <<setupVars, sending, results, ctask, cpc, cqueue, delivered, todo, pendingCount, completedSet, builds, tasks>>
  BY DEF IndInv, TypeOK, GoroutinesOK, ChannelsOK, OnceInv, WorkerReceive, setupVars, mainVars, collVars, history
<1>a. /\ t \in TaskIDs /\ t # NoTask /\ Members(readyQueue) = Members(readyQueue') \union {t}
      /\ NoRepeat(readyQueue) => NoRepeat(readyQueue') /\ t \notin Members(readyQueue')
  <2>1. t \in TaskIDs
    BY <1>0, MembersTail
  <2>2. /\ Members(readyQueue) = Members(Tail(readyQueue)) \union {t}
        /\ NoRepeat(readyQueue) => NoRepeat(Tail(readyQueue)) /\ t \notin Members(Tail(readyQueue))
    BY <1>0, NoRepeatTail
  <2> QED BY <1>0, <2>1, <2>2, TaskIDsAssumption
<1> HIDE DEF t
<1>b. wtask[w] = NoTask /\ wtask'[w] = t /\ \A v \in Workers : v # w => wtask'[v] = wtask[v] /\ wpc'[v] = wpc[v]
  BY <1>0 DEF Holding, Held
<1>1. /\ Sending' = Sending /\ Queued = Queued' \union {t}
      /\ Reported' = Reported /\ Collecting' = Collecting
  BY <1>0, <1>a DEF Sending, Queued, Reported, Collecting
<1>c. WithWorkers' = WithWorkers \union {t}
  BY <1>a, <1>b DEF WithWorkers
<1>2. Started' = Started /\ cpc # "none"
  BY <1>0, <1>1, <1>a, <1>c DEF Started, Holding
<1>3. ASSUME DistinctEdges PROVE OnePlace' /\ BuiltOnce' /\ CountExact'
  <2>1. OnePlace /\ BuiltOnce /\ CountExact
    BY <1>3 DEF OnceInv
  <2>2. NoRepeat(readyQueue') /\ NoRepeat(results') /\ t \notin Queued'
    BY <1>0, <1>a, <2>1 DEF OnePlace, Queued
  <2>3. t \notin WithWorkers /\ \A v \in Workers : wtask[v] # t
    BY <1>1, <1>a, <2>1 DEF OnePlace, WithWorkers
  <2>4. \A u \in Workers, v \in Workers : wtask'[u] = wtask'[v] /\ wtask'[u] # NoTask => u = v
    BY <1>b, <2>1, <2>3 DEF OnePlace
  <2>5. OnePlace'
    BY <1>0, <1>1, <1>c, <2>1, <2>2, <2>4 DEF OnePlace, NoRepeat
  <2>6. BuiltOnce'
    <3>1. \A v \in Workers : wpc[v] \in {"building", "sending"} => wtask'[v] = wtask[v] /\ wpc'[v] = wpc[v]
      BY <1>0, <1>b
    <3> QED BY <1>0, <1>1, <2>1, <3>1 DEF BuiltOnce
  <2>7. CountExact'
    BY <1>0, <2>1 DEF CountExact
  <2> QED BY <2>5, <2>6, <2>7
<1>4. \A v \in Workers : wtask'[v] # NoTask <=> wpc'[v] \in Held
  BY <1>0, <1>a, <1>b DEF Holding, Held
<1> QED BY <1>0, <1>1, <1>2, <1>3, <1>4, MoveOnce DEF Holding

\* A worker reports: the task enters results.
LEMMA SendResultOnce == ASSUME IndInv, OnceInv, NEW w \in Workers, SendResult(w) PROVE OnceInv'
<1> DEFINE t == wtask[w]
<1>0. /\ results \in Seq(TaskIDs) /\ Holding /\ wpc[w] = "sending"
      /\ results' = Append(results, t)
      /\ wtask \in [Workers -> TaskIDs \union {NoTask}] /\ wtask' = [wtask EXCEPT ![w] = NoTask]
      /\ wpc \in [Workers -> Held \union {"none", "select", "exited"}] /\ wpc' = [wpc EXCEPT ![w] = "select"]
      /\ UNCHANGED <<setupVars, sending, readyQueue, ctask, cpc, cqueue, delivered, todo, pendingCount, completedSet, builds, tasks>>
  BY DEF IndInv, TypeOK, GoroutinesOK, ChannelsOK, OnceInv, SendResult, setupVars, mainVars, collVars, history
<1>a. t \in TaskIDs /\ t # NoTask
  BY <1>0, TaskIDsAssumption DEF Holding, Held
<1>b. wtask[w] = t /\ wtask'[w] = NoTask /\ \A v \in Workers : v # w => wtask'[v] = wtask[v] /\ wpc'[v] = wpc[v]
  BY <1>0
<1> HIDE DEF t
<1>1. /\ Sending' = Sending /\ Queued' = Queued
      /\ Reported' = Reported \union {t} /\ Collecting' = Collecting
  BY <1>0, <1>a, MembersAppend DEF Sending, Queued, Reported, Collecting
<1>c. WithWorkers' \subseteq WithWorkers /\ WithWorkers = WithWorkers' \union {t}
  BY <1>a, <1>b DEF WithWorkers
<1>2. Started' = Started /\ cpc # "none"
  BY <1>0, <1>1, <1>a, <1>c DEF Started, Holding
<1>3. ASSUME DistinctEdges PROVE OnePlace' /\ BuiltOnce' /\ CountExact'
  <2>1. OnePlace /\ BuiltOnce /\ CountExact
    BY <1>3 DEF OnceInv
  <2>2. t \notin WithWorkers'
    <3>1. ASSUME NEW v \in Workers, wtask'[v] = t PROVE FALSE
      <4>1. v # w /\ wtask[v] = t
        BY <1>a, <1>b, <3>1
      <4> QED BY <1>a, <1>b, <2>1, <4>1 DEF OnePlace
    <3> QED BY <3>1 DEF WithWorkers
  <2>3. NoRepeat(readyQueue') /\ NoRepeat(results')
    <3>1. t \notin Members(results) /\ NoRepeat(results) /\ NoRepeat(readyQueue)
      BY <1>c, <2>1 DEF OnePlace, Reported
    <3> QED BY <1>0, <1>a, <3>1, NoRepeatAppend
  <2>4. \A u \in Workers, v \in Workers : wtask'[u] = wtask'[v] /\ wtask'[u] # NoTask => u = v
    BY <1>b, <2>1 DEF OnePlace
  <2>5. OnePlace'
    BY <1>0, <1>1, <1>c, <2>1, <2>2, <2>3, <2>4 DEF OnePlace, NoRepeat
  <2>6. BuiltOnce'
    <3>1. ASSUME NEW x \in TaskIDs, NEW v \in Workers, wtask[v] = x, wpc[v] \in {"building", "sending"}
          PROVE  x \in Reported' \/ (wtask'[v] = x /\ wpc'[v] \in {"building", "sending"})
      BY <1>1, <1>b, <3>1
    <3> QED BY <1>0, <1>1, <2>1, <3>1 DEF BuiltOnce
  <2>7. CountExact'
    BY <1>0, <2>1 DEF CountExact
  <2> QED BY <2>5, <2>6, <2>7
<1>4. \A v \in Workers : wtask'[v] # NoTask <=> wpc'[v] \in Held
  BY <1>0, <1>b DEF Holding, Held
<1> QED BY <1>0, <1>1, <1>2, <1>3, <1>4, MoveOnce DEF Holding

\* The collector receives: the task leaves results.
LEMMA CollectReceiveOnce == ASSUME IndInv, OnceInv, CollectReceive PROVE OnceInv'
<1> DEFINE t == Head(results)
<1>0. /\ results \in Seq(TaskIDs) /\ results # <<>> /\ Holding /\ pendingCount \in Nat
      /\ results' = Tail(results) /\ ctask' = t /\ cpc = "select" /\ cpc' = "failed?"
      /\ pendingCount' = pendingCount - 1
      /\ UNCHANGED <<setupVars, sending, readyQueue, wtask, wpc, delivered, todo, completedSet, builds, tasks>>
  BY DEF IndInv, TypeOK, ChannelsOK, CollectorOK, OnceInv, CollectReceive, setupVars, mainVars, workerVars, history
<1>a. /\ t \in TaskIDs /\ t # NoTask /\ Members(results) = Members(results') \union {t}
      /\ NoRepeat(results) => NoRepeat(results') /\ t \notin Members(results')
  <2>1. t \in TaskIDs
    BY <1>0, MembersTail
  <2>2. /\ Members(results) = Members(Tail(results)) \union {t}
        /\ NoRepeat(results) => NoRepeat(Tail(results)) /\ t \notin Members(Tail(results))
    BY <1>0, NoRepeatTail
  <2> QED BY <1>0, <2>1, <2>2, TaskIDsAssumption
<1> HIDE DEF t
<1>b. ctask = NoTask
  BY <1>0 DEF Holding
<1>1. /\ Sending' = Sending /\ Queued' = Queued /\ WithWorkers' = WithWorkers
      /\ Reported = Reported' \union {t} /\ Collecting = {} /\ Collecting' = {t}
  BY <1>0, <1>a, <1>b DEF Sending, Queued, WithWorkers, Reported, Collecting
<1>2. Started' = Started
  BY <1>0, <1>1 DEF Started
<1>3. ASSUME DistinctEdges PROVE OnePlace' /\ BuiltOnce' /\ CountExact'
  <2>1. OnePlace /\ BuiltOnce /\ CountExact
    BY <1>3 DEF OnceInv
  <2>2. NoRepeat(readyQueue') /\ NoRepeat(results') /\ t \notin Reported'
    BY <1>0, <1>a, <2>1 DEF OnePlace, Reported
  <2>3. OnePlace'
    BY <1>0, <1>1, <2>1, <2>2 DEF OnePlace, NoRepeat
  <2>4. BuiltOnce'
    BY <1>0, <1>1, <2>1 DEF BuiltOnce
  <2>5. CountExact'
    <3>1. Cardinality(tasks \ delivered) \in Nat
      BY CountType DEF IndInv, TypeOK, GraphOK
    <3> QED BY <1>0, <1>a, <1>b, <2>1, <3>1 DEF CountExact
  <2> QED BY <2>3, <2>4, <2>5
<1> QED BY <1>0, <1>a, <1>1, <1>2, <1>3, MoveOnce DEF Holding

\* The collector is done with a task.
LEMMA DeliverOnce ==
    ASSUME IndInv, OnceInv, Deliver, cpc \in {"completed?", "dependents"},
           UNCHANGED <<setupVars, mainVars, readyQueue, results, workerVars, pendingCount, completedSet, builds>>
    PROVE  OnceInv'
<1>0. /\ Holding /\ ctask \in TaskIDs /\ ctask # NoTask /\ tasks \in SUBSET TaskIDs
      /\ ctask' = NoTask /\ delivered' = delivered \union {ctask} /\ cpc' = "select"
      /\ UNCHANGED <<sending, wtask, wpc, todo, tasks>>
  BY TaskIDsAssumption
     DEF IndInv, TypeOK, GraphOK, CollectorHasTask, OnceInv, Deliver, setupVars, mainVars, workerVars
<1>1. /\ Sending' = Sending /\ Queued' = Queued /\ WithWorkers' = WithWorkers
      /\ Reported' = Reported /\ Collecting = {ctask} /\ Collecting' = {}
  BY <1>0 DEF Sending, Queued, WithWorkers, Reported, Collecting
<1>2. Started' = Started /\ ctask \in tasks
  BY <1>0, <1>1 DEF Started, Holding
<1>3. ASSUME DistinctEdges PROVE OnePlace' /\ BuiltOnce' /\ CountExact'
  <2>1. OnePlace /\ BuiltOnce /\ CountExact
    BY <1>3 DEF OnceInv
  <2>3. OnePlace'
    BY <1>0, <1>1, <2>1 DEF OnePlace, NoRepeat
  <2>4. BuiltOnce'
    BY <1>0, <1>1, <2>1 DEF BuiltOnce
  <2>5. CountExact'
    <3>1. tasks' \ delivered' = (tasks \ delivered) \ {ctask} /\ ctask \in tasks \ delivered
      BY <1>0, <1>1, <1>2, <2>1 DEF OnePlace
    <3>2. IsFiniteSet(tasks \ delivered)
      BY <1>0, TaskIDsAssumption, FS_Subset
    <3>3. Cardinality(tasks' \ delivered') = Cardinality(tasks \ delivered) - 1 /\ Cardinality(tasks \ delivered) \in Nat
      BY <3>1, <3>2, FS_RemoveElement, FS_CardinalityType
    <3> QED BY <1>0, <2>1, <3>3 DEF CountExact
  <2> QED BY <2>3, <2>4, <2>5
<1> QED BY <1>0, <1>1, <1>2, <1>3, MoveOnce DEF Holding

\* A task is started: what is left to show of such a step.
LEMMA StartOnce ==
    ASSUME OnceInv, NEW t \in tasks, Started' = Started \union {t},
           Members(deps[t]) \subseteq completedSet, cpc # "none",
           UNCHANGED <<setupVars, wpc, wtask, results, ctask, cpc, delivered, completedSet, pendingCount, builds>>,
           todo' \subseteq todo, Members(cqueue') \subseteq Members(cqueue),
           DistinctEdges => /\ t \notin todo' \/ deps[t] # <<>>
                            /\ cpc = "dependents" => t \notin Members(cqueue') /\ NoRepeat(cqueue')
                            /\ OnePlace'
    PROVE  OnceInv'
<1>1. EdgesMirrored' /\ DistinctEdges' = DistinctEdges /\ tasks' = tasks /\ deps' = deps /\ dependents' = dependents
  BY MirrorKept DEF OnceInv, setupVars
<1>2. Reported' = Reported /\ Collecting' = Collecting
  BY DEF Reported, Collecting
<1>3. Holding'
  <2>1. Holding
    BY DEF OnceInv
  <2>2. \A x \in Started' : Members(deps'[x]) \subseteq completedSet'
    BY <1>1, <2>1 DEF Holding
  <2>3. todo' \union Started' \subseteq tasks' /\ (cpc' = "dependents" => Members(cqueue') \subseteq tasks')
    BY <1>1, <2>1 DEF Holding
  <2> QED BY <1>1, <1>2, <2>1, <2>2, <2>3 DEF Holding, Members
<1>4. ASSUME DistinctEdges PROVE QueuedOnce' /\ BuiltOnce' /\ CountExact'
  <2>1. QueuedOnce /\ BuiltOnce /\ CountExact
    BY <1>4 DEF OnceInv
  <2>2. \A x \in todo' : deps'[x] = <<>> => x \notin Started'
    BY <1>1, <1>4, <2>1 DEF QueuedOnce
  <2>3. ASSUME cpc = "dependents"
        PROVE  NoRepeat(cqueue') /\ Members(cqueue') \subseteq Members(dependents[ctask]) \ Started'
    BY <1>4, <2>1, <2>3 DEF QueuedOnce
  <2>4. QueuedOnce'
    BY <1>1, <2>2, <2>3 DEF QueuedOnce
  <2>5. BuiltOnce' /\ CountExact'
    BY <1>1, <1>2, <2>1 DEF BuiltOnce, CountExact
  <2> QED BY <2>4, <2>5
<1> QED BY <1>1, <1>3, <1>4 DEF OnceInv

\* queueReadyTasks: a task without dependencies is nobody's dependent.
LEMMA QueueReadyOnce ==
    ASSUME IndInv, OnceInv, NEW t \in TaskIDs, QueueReadyTask(t)
    PROVE  OnceInv'
<1>0. /\ t \in todo /\ todo' = todo \ {t} /\ sending = NoTask /\ Holding
      /\ sending' = (IF deps[t] = <<>> THEN t ELSE NoTask) /\ t # NoTask
      /\ UNCHANGED <<setupVars, readyQueue, results, wpc, wtask, ctask, cpc, cqueue, delivered, completedSet,
                     pendingCount, builds>>
  BY TaskIDsAssumption DEF QueueReadyTask, OnceInv, workerVars, collVars, history
<1>1. CASE deps[t] # <<>>
  <2>1. sending' = sending
    BY <1>0, <1>1
  <2> QED BY <1>0, <2>1, StillOnce
<1>2. CASE deps[t] = <<>>
  <2>1. /\ Sending = {} /\ Sending' = {t} /\ Queued' = Queued /\ WithWorkers' = WithWorkers
        /\ Reported' = Reported /\ Collecting' = Collecting
    BY <1>0, <1>2 DEF Sending, Queued, WithWorkers, Reported, Collecting
  <2>2. Started' = Started \union {t} /\ t \in tasks /\ cpc # "none" /\ Members(deps[t]) \subseteq completedSet
    BY <1>0, <1>2, <2>1 DEF Started, Holding, Members
  <2>3. ASSUME DistinctEdges
        PROVE  /\ t \notin todo' \/ deps[t] # <<>>
               /\ cpc = "dependents" => t \notin Members(cqueue') /\ NoRepeat(cqueue')
               /\ OnePlace'
    <3>1. OnePlace /\ QueuedOnce
      BY <2>3 DEF OnceInv
    <3>2. t \notin Started
      BY <1>0, <1>2, <3>1 DEF QueuedOnce
    <3>3. OnePlace'
      BY <1>0, <2>1, <3>1, <3>2 DEF OnePlace, NoRepeat, Started
    <3>4. ASSUME cpc = "dependents" PROVE t \notin Members(cqueue') /\ NoRepeat(cqueue')
      <4>1. ctask \in TaskIDs
        BY <3>4 DEF IndInv, CollectorHasTask
      <4>2. ctask \notin Members(deps[t])
        BY <1>2 DEF Members
      <4>3. t \notin Members(dependents[ctask])
        BY <4>1, <4>2 DEF OnceInv, EdgesMirrored
      <4> QED BY <1>0, <3>1, <3>4, <4>3 DEF QueuedOnce
    <3> QED BY <1>0, <3>3, <3>4
  <2> QED BY <1>0, <2>2, <2>3, StartOnce
<1> QED BY <1>1, <1>2

\* queueReadyDependents: a dependent is queued by the last of its dependencies.
LEMMA QueueDependentOnce ==
    ASSUME IndInv, OnceInv, QueueDependent
    PROVE  OnceInv'
<1> DEFINE t == Head(cqueue)
<1>0. /\ cpc = "dependents" /\ cqueue # <<>> /\ cqueue \in Seq(TaskIDs) /\ cqueue' = Tail(cqueue)
      /\ ctask \in TaskIDs /\ Holding /\ readyQueue \in Seq(TaskIDs)
      /\ \/ readyQueue' = readyQueue
         \/ readyQueue' = Append(readyQueue, t) /\ Members(deps[t]) \subseteq completedSet
      /\ UNCHANGED <<setupVars, sending, todo, results, wpc, wtask, ctask, cpc, delivered, completedSet,
                     pendingCount, builds>>
  BY DEF QueueDependent, IndInv, TypeOK, ChannelsOK, CollectorOK, CollectorHasTask, OnceInv,
         areDependenciesCompleted, mainVars, workerVars, history
<1>1. /\ t \in TaskIDs /\ Members(cqueue) = Members(cqueue') \union {t}
      /\ NoRepeat(cqueue) => NoRepeat(cqueue') /\ t \notin Members(cqueue')
  <2>1. t \in TaskIDs
    BY <1>0, MembersTail
  <2>2. /\ Members(cqueue) = Members(Tail(cqueue)) \union {t}
        /\ NoRepeat(cqueue) => NoRepeat(Tail(cqueue)) /\ t \notin Members(Tail(cqueue))
    BY <1>0, NoRepeatTail
  <2> QED BY <1>0, <2>1, <2>2
<1>2. CASE readyQueue' = readyQueue
  BY <1>0, <1>1, <1>2, StillOnce
<1> HIDE DEF t
<1>3. CASE readyQueue' = Append(readyQueue, t) /\ Members(deps[t]) \subseteq completedSet
  <2>1. /\ Sending' = Sending /\ Queued' = Queued \union {t} /\ WithWorkers' = WithWorkers
        /\ Reported' = Reported /\ Collecting' = Collecting
    BY <1>0, <1>1, <1>3, MembersAppend DEF Sending, Queued, WithWorkers, Reported, Collecting
  <2>2. Started' = Started \union {t} /\ t \in tasks
    BY <1>0, <1>1, <2>1 DEF Started, Holding
  <2>3. ASSUME DistinctEdges
        PROVE  /\ t \notin todo' \/ deps[t] # <<>>
               /\ cpc = "dependents" => t \notin Members(cqueue') /\ NoRepeat(cqueue')
               /\ OnePlace'
    <3>1. OnePlace /\ QueuedOnce
      BY <2>3 DEF OnceInv
    <3>2. t \in Members(dependents[ctask]) /\ t \notin Started /\ NoRepeat(cqueue)
      BY <1>0, <1>1, <3>1 DEF QueuedOnce
    <3>3. NoRepeat(readyQueue')
      <4>1. t \notin Members(readyQueue) /\ NoRepeat(readyQueue)
        BY <3>1, <3>2 DEF OnePlace, Started, Queued
      <4> QED BY <1>0, <1>1, <1>3, <4>1, NoRepeatAppend
    <3>4. OnePlace'
      BY <1>0, <2>1, <3>1, <3>2, <3>3 DEF OnePlace, NoRepeat, Started
    <3>5. ctask \in Members(deps[t])
      BY <1>0, <1>1, <3>2 DEF OnceInv, EdgesMirrored
    <3>6. deps[t] # <<>>
      BY <3>5 DEF Members
    <3> QED BY <1>1, <3>2, <3>4, <3>6
  <2> QED BY <1>0, <1>1, <1>3, <2>2, <2>3, StartOnce
<1> QED BY <1>0, <1>2, <1>3

\* Start and queueReadyTasks.
LEMMA MainOnce == IndInv /\ OnceInv /\ Main => OnceInv'
<1> SUFFICES ASSUME IndInv, OnceInv, Main PROVE OnceInv'
  OBVIOUS
<1>1. ASSUME FinishStart \/ ReturnStart PROVE OnceInv'
  <2>1. UNCHANGED <<setupVars, sending, readyQueue, wtask, results, ctask, delivered, todo, wpc, cpc,
                    pendingCount, completedSet, cqueue, builds>>
    BY <1>1 DEF FinishStart, ReturnStart, workerVars, collVars, history
  <2> QED BY <2>1, StillOnce
<1> QED BY <1>1, QueueReadyOnce, SendReadyOnce DEF Main

\* The workers.
LEMMA WorkerOnce == IndInv /\ OnceInv /\ (\E w \in Workers : Worker(w)) => OnceInv'
<1> SUFFICES ASSUME IndInv, OnceInv, NEW w \in Workers, Worker(w) PROVE OnceInv'
  OBVIOUS
<1>1. wpc \in [Workers -> Held \union {"none", "select", "exited"}]
  BY DEF IndInv, TypeOK, GoroutinesOK
<1>2. ASSUME WorkerExit(w) \/ WorkerRefuse(w) \/ WorkerAccept(w) \/ \E err \in BOOLEAN : EndBuild(w, err)
      PROVE  OnceInv'
  <2>1. UNCHANGED <<setupVars, sending, readyQueue, wtask, results, ctask, delivered, todo, cpc,
                    pendingCount, completedSet, cqueue, builds>>
    BY <1>2 DEF WorkerExit, WorkerRefuse, WorkerAccept, EndBuild, mainVars, collVars, history
  <2>2. \A v \in Workers : wpc'[v] \in Held <=> wpc[v] \in Held
    BY <1>1, <1>2 DEF WorkerExit, WorkerRefuse, WorkerAccept, EndBuild, Held
  <2>3. \A v \in Workers : wpc[v] \in {"building", "sending"} => wpc'[v] \in {"building", "sending"}
    BY <1>1, <1>2 DEF WorkerExit, WorkerRefuse, WorkerAccept, EndBuild, Held
  <2> QED BY <2>1, <2>2, <2>3, StillOnce
<1> QED BY <1>2, BeginOnce, WorkerReceiveOnce, SendResultOnce DEF Worker

\* The collector.
LEMMA CollectorOnce == IndInv /\ OnceInv /\ Collector => OnceInv'
<1> SUFFICES ASSUME IndInv, OnceInv, Collector PROVE OnceInv'
  OBVIOUS
<1>1. ASSUME \/ CollectEnd \/ CollectCanceled \/ CollectFailure \/ CollectNoFailure
             \/ \E t \in TaskIDs : CancelRead(t)
             \/ CancelWrite \/ CancelEnd
      PROVE  OnceInv'
  <2>1. UNCHANGED <<setupVars, sending, readyQueue, wtask, results, ctask, delivered, todo, wpc,
                    pendingCount, completedSet, cqueue, builds>>
    BY <1>1 DEF CollectEnd, CollectCanceled, CollectFailure, CollectNoFailure, CancelRead, CancelWrite, CancelEnd,
                mainVars, workerVars, collVars, history
  <2>2. /\ cpc' \in {"failed?", "canceling", "completed?"} <=> cpc \in {"failed?", "canceling", "completed?"}
        /\ cpc' = "dependents" <=> cpc = "dependents"
        /\ cpc' = "none" <=> cpc = "none"
    BY <1>1 DEF CollectEnd, CollectCanceled, CollectFailure, CollectNoFailure, CancelRead, CancelWrite, CancelEnd
  <2> QED BY <2>1, <2>2, StillOnce
<1>2. ASSUME CollectNotCompleted \/ QueueDependentsEnd PROVE OnceInv'
  <2>1. /\ Deliver /\ cpc \in {"completed?", "dependents"}
        /\ UNCHANGED <<setupVars, mainVars, readyQueue, results, workerVars, pendingCount, completedSet, builds>>
    BY <1>2 DEF CollectNotCompleted, QueueDependentsEnd
  <2> QED BY <2>1, DeliverOnce
<1> QED BY <1>1, <1>2, CollectReceiveOnce, CompletedOnce, QueueDependentOnce DEF Collector

\* Every behaviour keeps the bookkeeping.
LEMMA OnceInvHolds == Spec => []OnceInv
<1>1. ASSUME IndInv, OnceInv, [Next]_vars PROVE OnceInv'
  <2>1. CASE Environment \/ Terminated \/ UNCHANGED vars
    <3>1. UNCHANGED <<setupVars, sending, readyQueue, wtask, results, ctask, delivered, todo, wpc, cpc,
                      pendingCount, completedSet, cqueue, builds>>
      BY <2>1 DEF Environment, Stop, CancelCtx, Terminated, vars, mainVars, workerVars, collVars, history
    <3> QED BY <1>1, <3>1, StillOnce
  <2> QED BY <1>1, <2>1, SetupOnce, MainOnce, WorkerOnce, CollectorOnce DEF Next
<1> QED BY <1>1, InitOnce, Invariance, PTL DEF Spec

\* No dependency was added twice, in terms of positions.
LEMMA DistinctMeansNoRepeat == ASSUME GraphOK, EdgesDistinct PROVE DistinctEdges
<1> SUFFICES ASSUME NEW t \in TaskIDs PROVE NoRepeat(deps[t])
  BY DEF DistinctEdges
<1> DEFINE s == deps[t]
           N == 1..Len(s)
<1>1. s \in Seq(TaskIDs) /\ Len(s) \in Nat /\ Len(s) = Cardinality(Members(s)) /\ DOMAIN s = N
  BY DEF GraphOK, EdgesDistinct
<1> HIDE DEF s
<1>2. s \in [N -> Members(s)]
  <2>1. s \in [N -> TaskIDs]
    BY <1>1
  <2>2. \A i \in N : s[i] \in Members(s)
    BY DEF Members
  <2> QED BY <2>1, <2>2
<1>3. s \in Surjection(N, Members(s))
  BY <1>1, <1>2 DEF Surjection, Members
<1>4. IsFiniteSet(N) /\ Cardinality(N) = Len(s)
  BY <1>1, FS_Interval
<1>5. s \in Injection(N, Members(s))
  BY <1>1, <1>3, <1>4, FS_SurjSameCardinalityImpliesInj
<1>6. NoRepeat(s)
  BY <1>1, <1>5 DEF Injection, IsInjective, NoRepeat
<1> QED BY <1>6 DEF s

\* Without repetitions a task occurs once where it occurs.
LEMMA OccursOnce ==
    ASSUME NEW s \in Seq(TaskIDs), NoRepeat(s), NEW t
    PROVE  Occurrences(s, t) = IF t \in Members(s) THEN 1 ELSE 0
<1> DEFINE P == {i \in 1..Len(s) : s[i] = t}
<1>1. CASE t \in Members(s)
  <2>1. PICK i \in 1..Len(s) : s[i] = t
    BY <1>1 DEF Members
  <2>2. P = {i}
    BY <2>1 DEF NoRepeat
  <2> QED BY <1>1, <2>2, FS_Singleton DEF Occurrences
<1>2. CASE t \notin Members(s)
  <2>1. P = {}
    BY <1>2 DEF Members
  <2> QED BY <1>2, <2>1, FS_EmptySet DEF Occurrences
<1> QED BY <1>1, <1>2

\* No package is built twice in one run, and collectResults, which counts down to
\* zero, receives exactly one result for every task, if no dependency was added
\* twice (ResultsExact): for every graph, number of workers and failure mode,
\* whatever main, workers and collector do to each other's statuses, and
\* cancellation included (scheduler.go, collectResults and queueReadyDependents).
THEOREM EveryResultOnce == Spec => []ResultsExact
<1>1. ASSUME IndInv, OnceInv, EdgesDistinct PROVE \A t \in TaskIDs : builds[t] <= 1
  <2>1. BuiltOnce
    BY <1>1, DistinctMeansNoRepeat DEF IndInv, TypeOK, OnceInv
  <2> QED BY <2>1 DEF BuiltOnce
<1>2. ASSUME IndInv, OnceInv, EdgesDistinct, cpc # "none",
             NEW t \in tasks
      PROVE  InFlight(t) + (IF t \in delivered THEN 1 ELSE 0) <= 1
  <2>1. OnePlace
    BY <1>2, DistinctMeansNoRepeat DEF IndInv, TypeOK, OnceInv
  <2>2. t \in TaskIDs /\ t # NoTask /\ readyQueue \in Seq(TaskIDs) /\ results \in Seq(TaskIDs)
    BY <1>2, TaskIDsAssumption DEF IndInv, TypeOK, GraphOK, ChannelsOK
  <2>3. Occurrences(readyQueue, t) = IF t \in Queued THEN 1 ELSE 0
    BY <2>1, <2>2, OccursOnce DEF OnePlace, Queued
  <2>4. Occurrences(results, t) = IF t \in Reported THEN 1 ELSE 0
    BY <2>1, <2>2, OccursOnce DEF OnePlace, Reported
  <2>5. Cardinality({w \in Workers : wtask[w] = t}) = IF t \in WithWorkers THEN 1 ELSE 0
    <3> DEFINE P == {w \in Workers : wtask[w] = t}
    <3>1. CASE t \in WithWorkers
      <4>1. PICK w \in Workers : wtask[w] = t
        BY <3>1 DEF WithWorkers
      <4>2. P = {w}
        BY <2>1, <2>2, <4>1 DEF OnePlace
      <4> QED BY <3>1, <4>2, FS_Singleton
    <3>2. CASE t \notin WithWorkers
      <4>1. P = {}
        BY <2>2, <3>2 DEF WithWorkers
      <4> QED BY <3>2, <4>1, FS_EmptySet
    <3> QED BY <3>1, <3>2
  <2>6. (sending = t <=> t \in Sending) /\ (ctask = t <=> t \in Collecting)
    BY <2>2 DEF Sending, Collecting
  <2>7. InFlight(t) = (IF t \in Queued THEN 1 ELSE 0) + (IF t \in Reported THEN 1 ELSE 0)
                        + (IF t \in WithWorkers THEN 1 ELSE 0)
                        + (IF t \in Sending THEN 1 ELSE 0) + (IF t \in Collecting THEN 1 ELSE 0)
    BY <2>3, <2>4, <2>5, <2>6 DEF InFlight
  <2>8. /\ t \in Sending => t \notin Queued \union WithWorkers \union Reported \union Collecting \union delivered
        /\ t \in Queued => t \notin WithWorkers \union Reported \union Collecting \union delivered
        /\ t \in WithWorkers => t \notin Reported \union Collecting \union delivered
        /\ t \in Reported => t \notin Collecting \union delivered
        /\ t \in Collecting => t \notin delivered
    BY <2>1 DEF OnePlace
  <2> QED BY <2>7, <2>8
<1>3. ASSUME IndInv, OnceInv, EdgesDistinct, cpc # "none"
      PROVE  pendingCount = Cardinality(tasks \ delivered) - (IF ctask = NoTask THEN 0 ELSE 1)
  <2>1. CountExact
    BY <1>3, DistinctMeansNoRepeat DEF IndInv, TypeOK, OnceInv
  <2> QED BY <1>3, <2>1 DEF CountExact
<1>4. IndInv /\ OnceInv => ResultsExact
  BY <1>1, <1>2, <1>3 DEF ResultsExact, BuiltAtMostOnce, ResultsAccounted
<1> QED BY <1>4, Invariance, OnceInvHolds, PTL

-----------------------------------------------------------------------------
(***************************************************************************)
(* topologicalSort (module KahnSort), for any tasks and any multigraph.    *)
(***************************************************************************)
\* The calls of AddDependency that u still waits for.
Waits(E, done, u) == {i \in 1..Len(E) : E[i][1] = u /\ E[i][2] \notin done}

\* The calls that made u depend on d.
Asked(E, u, d) == {i \in 1..Len(E) : E[i] = <<u, d>>}

\* How often u comes in a sequence after its first k elements.
Places(D, k, u) == {i \in (k + 1)..Len(D) : D[i] = u}

\* A part of an interval is finite.
LEMMA PartFinite ==
    ASSUME NEW n \in Nat, NEW S, S \subseteq 1..n
    PROVE  IsFiniteSet(S) /\ Cardinality(S) \in Nat
<1>1. IsFiniteSet(1..n)
  BY FS_Interval
<1> QED BY <1>1, FS_Subset, FS_CardinalityType

\* Waits and Places are finite.
LEMMA CountTypes ==
    ASSUME NEW T, NEW E \in Seq(T \X T), NEW done, NEW D \in Seq(T), NEW k \in Nat, NEW u
    PROVE  /\ IsFiniteSet(Waits(E, done, u)) /\ Cardinality(Waits(E, done, u)) \in Nat
           /\ IsFiniteSet(Places(D, k, u)) /\ Cardinality(Places(D, k, u)) \in Nat
<1>1. Waits(E, done, u) \subseteq 1..Len(E) /\ Len(E) \in Nat
  BY DEF Waits
<1>2. Places(D, k, u) \subseteq 1..Len(D) /\ Len(D) \in Nat
  BY DEF Places
<1> QED BY <1>1, <1>2, PartFinite

\* An element more of a sequence, and one place less to come.
LEMMA PlacesStep ==
    ASSUME NEW T, NEW D \in Seq(T), NEW k \in 0..(Len(D) - 1), NEW u
    PROVE  Cardinality(Places(D, k, u)) =
             Cardinality(Places(D, k + 1, u)) + (IF D[k + 1] = u THEN 1 ELSE 0)
<1>0. k \in Nat /\ k + 1 \in Nat /\ Len(D) \in Nat
  OBVIOUS
<1>1. CASE D[k + 1] = u
  <2>1. Places(D, k, u) = Places(D, k + 1, u) \cup {k + 1} /\ k + 1 \notin Places(D, k + 1, u)
    BY <1>0, <1>1 DEF Places
  <2>2. IsFiniteSet(Places(D, k + 1, u))
    <3>1. Places(D, k + 1, u) \subseteq 1..Len(D)
      BY <1>0 DEF Places
    <3> QED BY <1>0, <3>1, PartFinite
  <2> QED BY <1>1, <2>1, <2>2, FS_AddElement
<1>2. CASE D[k + 1] # u
  <2>1. Places(D, k, u) = Places(D, k + 1, u)
    BY <1>0, <1>2 DEF Places
  <2>2. Cardinality(Places(D, k + 1, u)) \in Nat
    <3>1. Places(D, k + 1, u) \subseteq 1..Len(D)
      BY <1>0 DEF Places
    <3> QED BY <1>0, <3>1, PartFinite
  <2> QED BY <1>2, <2>1, <2>2
<1> QED BY <1>1, <1>2

\* An element appended is one place more.
LEMMA PlacesAppend ==
    ASSUME NEW T, NEW D \in Seq(T), NEW x \in T, NEW u
    PROVE  Cardinality(Places(Append(D, x), 0, u)) =
             Cardinality(Places(D, 0, u)) + (IF x = u THEN 1 ELSE 0)
<1>0. /\ Len(D) \in Nat /\ Len(Append(D, x)) = Len(D) + 1
      /\ \A i \in 1..Len(D) : Append(D, x)[i] = D[i]
      /\ Append(D, x)[Len(D) + 1] = x
  OBVIOUS
<1> DEFINE A == Append(D, x)
<1>1. Places(D, 0, u) \subseteq 1..Len(D) /\ Len(D) + 1 \notin Places(D, 0, u)
  BY <1>0 DEF Places
<1>2. IsFiniteSet(Places(D, 0, u)) /\ Cardinality(Places(D, 0, u)) \in Nat
  BY <1>0, <1>1, PartFinite
<1>3. CASE x = u
  <2>1. Places(A, 0, u) = Places(D, 0, u) \cup {Len(D) + 1}
    BY <1>0, <1>3 DEF Places
  <2> QED BY <1>1, <1>2, <1>3, <2>1, FS_AddElement
<1>4. CASE x # u
  <2>1. Places(A, 0, u) = Places(D, 0, u)
    BY <1>0, <1>4 DEF Places
  <2> QED BY <1>2, <1>4, <2>1
<1> QED BY <1>3, <1>4

Anything(ctx, s) == TRUE
DependTurn(d, b, c, ds, e) == IF e[2] = d THEN Append(ds, e[1]) ELSE ds
DependFold == INSTANCE FoldFacts WITH op <- DependTurn, P <- Anything

\* A task has a dependent for every call that named it, as often as it was named.
LEMMA DependentsCount ==
    ASSUME NEW T, NEW E \in Seq(T \X T), NEW d \in T
    PROVE  /\ Dependents(E, d) \in Seq(T)
           /\ \A u \in T : Cardinality(Places(Dependents(E, d), 0, u)) = Cardinality(Asked(E, u, d))
<1> DEFINE n == Len(E)
           iter == DependFold!Iter(d, 0, 0, <<>>, E)
           Calls(k, u) == {i \in 1..k : E[i] = <<u, d>>}
           Right(ds, k) == /\ ds \in Seq(T)
                           /\ \A u \in T : Cardinality(Places(ds, 0, u)) = Cardinality(Calls(k, u))
           G == {k \in 0..n : Right(iter[1..k], k)}
<1>1. n \in Nat /\ DOMAIN E = 1..n /\ \A i \in 1..n : E[i] \in T \X T
  OBVIOUS
<1>2. /\ iter[{}] = <<>>
      /\ \A k \in 0..(n - 1) : iter[1..(k + 1)] = DependTurn(d, 0, 0, iter[1..k], E[k + 1])
      /\ DependFold!Run(d, 0, 0, <<>>, E) = iter[1..n]
  BY <1>1, DependFold!FoldRuns
<1>3. Dependents(E, d) = DependFold!Run(d, 0, 0, <<>>, E)
  BY DEF Dependents, DependTurn, DependFold!Run, FoldLeft, MapThenFoldSet, Max, DependFold!Largest
<1> HIDE DEF iter
<1>4. 0 \in G
  <2>1. 1..0 = {} /\ iter[1..0] = <<>>
    BY <1>2
  <2>2. \A u : Places(<<>>, 0, u) = {} /\ Calls(0, u) = {}
    BY DEF Places
  <2>3. Right(<<>>, 0)
    <3>1. <<>> \in Seq(T)
      OBVIOUS
    <3> QED BY <2>2, <3>1
  <2> HIDE DEF Right
  <2>4. 0 \in 0..n
    BY <1>1
  <2> QED BY <2>1, <2>3, <2>4
<1>5. ASSUME NEW k \in 0..(n - 1), k \in G PROVE k + 1 \in G
  <2> DEFINE ds == iter[1..k]
             e == E[k + 1]
  <2>0. k + 1 \in 1..n /\ k + 1 \in 0..n /\ k \in Nat
    BY <1>1
  <2>1. Right(ds, k)
    BY <1>5
  <2>2. PICK x \in T, y \in T : e = <<x, y>>
    BY <1>1, <2>0
  <2>3. iter[1..(k + 1)] = IF y = d THEN Append(ds, x) ELSE ds
    BY <1>2, <2>2 DEF DependTurn
  <2> HIDE DEF ds
  <2>4. \A u : /\ Calls(k, u) \subseteq 1..k /\ k + 1 \notin Calls(k, u)
               /\ Calls(k + 1, u) = IF x = u /\ y = d THEN Calls(k, u) \cup {k + 1} ELSE Calls(k, u)
    BY <2>0, <2>2
  <2>5. \A u : IsFiniteSet(Calls(k, u)) /\ Cardinality(Calls(k, u)) \in Nat
    <3> HIDE DEF Calls
    <3> QED BY <2>0, <2>4, PartFinite
  <2>6. \A u : Cardinality(Calls(k + 1, u)) =
                 Cardinality(Calls(k, u)) + (IF x = u /\ y = d THEN 1 ELSE 0)
    <3> TAKE u
    <3> DEFINE C == Calls(k, u)
               N == Calls(k + 1, u)
    <3>1. /\ IsFiniteSet(C) /\ Cardinality(C) \in Nat /\ k + 1 \notin C
          /\ N = IF x = u /\ y = d THEN C \cup {k + 1} ELSE C
      BY <2>4, <2>5
    <3> HIDE DEF C, N
    <3>2. Cardinality(C \cup {k + 1}) = Cardinality(C) + 1
      BY <3>1, FS_AddElement
    <3>3. x = u /\ y = d => Cardinality(N) = Cardinality(C) + 1
      BY <3>1, <3>2
    <3>4. ~(x = u /\ y = d) => Cardinality(N) = Cardinality(C) + 0
      BY <3>1
    <3> QED BY <3>3, <3>4 DEF C, N
  <2>7. Right(iter[1..(k + 1)], k + 1)
    <3> HIDE DEF Calls
    <3>1. CASE y = d
      <4>1. Append(ds, x) \in Seq(T)
        BY <2>1, <2>2
      <4>2. \A u \in T : Cardinality(Places(Append(ds, x), 0, u)) = Cardinality(Places(ds, 0, u)) + (IF x = u THEN 1 ELSE 0)
        BY <2>1, <2>2, PlacesAppend
      <4>3. ASSUME NEW u \in T
            PROVE  Cardinality(Places(Append(ds, x), 0, u)) = Cardinality(Calls(k + 1, u))
        BY <2>1, <2>6, <3>1, <4>2
      <4> QED BY <2>3, <3>1, <4>1, <4>3
    <3>2. CASE y # d
      <4>1. \A u : Cardinality(Calls(k + 1, u)) = Cardinality(Calls(k, u))
        BY <2>5, <2>6, <3>2
      <4> QED BY <2>1, <2>3, <3>2, <4>1
    <3> QED BY <3>1, <3>2
  <2> HIDE DEF Right
  <2> QED BY <2>0, <2>7
<1>6. n \in G
  <2> HIDE DEF G
  <2> QED BY <1>1, <1>4, <1>5, DependFold!UpTo
<1> QED BY <1>2, <1>3, <1>6 DEF Asked


\* What topologicalSort knows between two turns of its loops.  t has just been
\* dequeued (or nothing, and D is empty); the first k of its dependents D have
\* been visited.  The in-degree of a task counts the edges it still waits for,
\* those of t that are not visited yet included; the tasks whose in-degree is
\* zero are the ones sorted or queued, each once; and each sorted task comes
\* after all it depends on.
SortState(T) == [inDegree : [T -> Nat], queue : Seq(T), result : Seq(T)]
Sorting(T, E, s, D, k) ==
  /\ s \in SortState(T)
  /\ \A u \in T : s.inDegree[u] = Cardinality(Waits(E, Range(s.result), u)) + Cardinality(Places(D, k, u))
  /\ \A i, j \in 1..Len(s.result) : s.result[i] = s.result[j] => i = j
  /\ \A i, j \in 1..Len(s.queue) : s.queue[i] = s.queue[j] => i = j
  /\ \A i \in 1..Len(s.result), j \in 1..Len(s.queue) : s.result[i] # s.queue[j]
  /\ \A u \in T : s.inDegree[u] = 0 <=> u \in Range(s.result) \cup Range(s.queue)
  /\ \A i \in 1..Len(s.result) : \A d \in T :
       <<s.result[i], d>> \in Range(E) => \E j \in 1..(i - 1) : s.result[j] = d

\* The members of a sequence with one more element.
LEMMA RangeAppend ==
    ASSUME NEW T, NEW q \in Seq(T), NEW x \in T
    PROVE  /\ Append(q, x) \in Seq(T) /\ Len(Append(q, x)) = Len(q) + 1
           /\ \A i \in 1..Len(q) : Append(q, x)[i] = q[i]
           /\ Append(q, x)[Len(q) + 1] = x
           /\ Range(Append(q, x)) = Range(q) \cup {x}
<1>1. /\ Append(q, x) \in Seq(T) /\ Len(Append(q, x)) = Len(q) + 1 /\ Len(q) \in Nat
      /\ \A i \in 1..Len(q) : Append(q, x)[i] = q[i]
      /\ Append(q, x)[Len(q) + 1] = x
  OBVIOUS
<1>2. DOMAIN Append(q, x) = 1..(Len(q) + 1) /\ DOMAIN q = 1..Len(q)
  OBVIOUS
<1> DEFINE A == Append(q, x)
<1>3. ASSUME NEW y \in Range(A) PROVE y \in Range(q) \cup {x}
  BY <1>1, <1>2, <1>3 DEF Range
<1>4. ASSUME NEW y \in Range(q) \cup {x} PROVE y \in Range(A)
  <2>1. ASSUME NEW i \in 1..Len(q) PROVE q[i] \in Range(A)
    <3>1. i \in DOMAIN A /\ A[i] = q[i]
      BY <1>1, <1>2
    <3> HIDE DEF A
    <3> QED BY <3>1 DEF Range
  <2>2. x \in Range(A)
    <3>1. Len(q) + 1 \in DOMAIN A /\ A[Len(q) + 1] = x
      BY <1>1, <1>2
    <3> HIDE DEF A
    <3> QED BY <3>1 DEF Range
  <2> HIDE DEF A
  <2> QED BY <1>2, <1>4, <2>1, <2>2 DEF Range
<1> QED BY <1>1, <1>3, <1>4

\* The head of a queue without repetitions, and what is left.
LEMMA RangeTail ==
    ASSUME NEW T, NEW q \in Seq(T), q # <<>>, \A i, j \in 1..Len(q) : q[i] = q[j] => i = j
    PROVE  /\ Head(q) \in T /\ Tail(q) \in Seq(T) /\ Len(Tail(q)) = Len(q) - 1
           /\ Head(q) = q[1] /\ 1 \in 1..Len(q)
           /\ \A i \in 1..Len(Tail(q)) : i + 1 \in 1..Len(q) /\ Tail(q)[i] = q[i + 1]
           /\ Head(q) \notin Range(Tail(q))
           /\ Range(q) = Range(Tail(q)) \cup {Head(q)}
<1>1. /\ Head(q) \in T /\ Tail(q) \in Seq(T) /\ Len(Tail(q)) = Len(q) - 1
      /\ Head(q) = q[1] /\ Len(q) \in Nat \ {0}
      /\ DOMAIN q = 1..Len(q) /\ DOMAIN Tail(q) = 1..(Len(q) - 1)
  OBVIOUS
<1>2. \A i \in 1..Len(Tail(q)) : Tail(q)[i] = q[i + 1]
  OBVIOUS
<1>3. 1 \in 1..Len(q) /\ \A i \in 1..Len(Tail(q)) : i + 1 \in 1..Len(q)
  BY <1>1
<1>4. Head(q) \notin Range(Tail(q))
  <2>1. ASSUME NEW i \in 1..Len(Tail(q)) PROVE Tail(q)[i] # Head(q)
    BY <1>1, <1>2, <1>3
  <2> QED BY <1>1, <2>1 DEF Range
<1>5. ASSUME NEW i \in 1..Len(q) PROVE q[i] \in Range(Tail(q)) \cup {Head(q)}
  <2>1. CASE i = 1
    BY <1>1, <2>1
  <2>2. CASE i # 1
    <3>1. i - 1 \in DOMAIN Tail(q) /\ Tail(q)[i - 1] = q[i]
      BY <1>1, <1>2, <2>2
    <3> QED BY <3>1 DEF Range
  <2> QED BY <2>1, <2>2
<1>6. ASSUME NEW i \in 1..Len(Tail(q)) PROVE Tail(q)[i] \in Range(q)
  BY <1>1, <1>2, <1>3 DEF Range
<1>7. Head(q) \in Range(q)
  BY <1>1, <1>3 DEF Range
<1>8. Range(q) \subseteq Range(Tail(q)) \cup {Head(q)}
  BY <1>1, <1>5 DEF Range
<1>9. Range(Tail(q)) \subseteq Range(q)
  BY <1>1, <1>6 DEF Range
<1> QED BY <1>1, <1>2, <1>3, <1>4, <1>7, <1>8, <1>9

\* One turn of the inner loop.
LEMMA RelaxKeeps ==
    ASSUME NEW T, NEW E \in Seq(T \X T), NEW D \in Seq(T), NEW k \in 0..(Len(D) - 1), NEW s, Sorting(T, E, s, D, k)
    PROVE  Sorting(T, E, Relax(s, D[k + 1]), D, k + 1) /\ Relax(s, D[k + 1]).result = s.result
<1> DEFINE t == D[k + 1]
           left == s.inDegree[t] - 1
           n == Relax(s, t)
<1>0. k \in Nat /\ k + 1 \in Nat /\ k + 1 \in 1..Len(D) /\ t \in T
  OBVIOUS
<1>1. /\ s.inDegree \in [T -> Nat] /\ s.queue \in Seq(T) /\ s.result \in Seq(T)
      /\ s = [inDegree |-> s.inDegree, queue |-> s.queue, result |-> s.result]
  BY DEF Sorting, SortState
<1>2. n = [inDegree |-> [s.inDegree EXCEPT ![t] = left],
           queue |-> IF left = 0 THEN Append(s.queue, t) ELSE s.queue, result |-> s.result]
  BY DEF Relax
<1> DEFINE w(u) == Cardinality(Waits(E, Range(s.result), u))
           p(u) == Cardinality(Places(D, k, u))
           r(u) == Cardinality(Places(D, k + 1, u))
<1>3. \A u : w(u) \in Nat /\ p(u) \in Nat /\ r(u) \in Nat /\ p(u) = r(u) + (IF u = t THEN 1 ELSE 0)
  <2> TAKE u
  <2>1. w(u) \in Nat /\ p(u) \in Nat /\ r(u) \in Nat
    BY <1>0, CountTypes
  <2>2. p(u) = r(u) + (IF t = u THEN 1 ELSE 0)
    BY PlacesStep
  <2> QED BY <2>1, <2>2
<1>4. \A u \in T : s.inDegree[u] = w(u) + p(u)
  BY DEF Sorting
<1> HIDE DEF t, n, w, p, r
<1>5. left \in Nat /\ left = w(t) + r(t) /\ s.inDegree[t] # 0
  <2>1. w(t) \in Nat /\ r(t) \in Nat /\ p(t) = r(t) + 1
    BY <1>3
  <2>2. s.inDegree[t] = w(t) + p(t)
    BY <1>0, <1>4
  <2> QED BY <2>1, <2>2
<1>6. n.inDegree \in [T -> Nat] /\ \A u \in T : n.inDegree[u] = w(u) + r(u)
  <2>1. n.inDegree = [s.inDegree EXCEPT ![t] = left]
    BY <1>2
  <2>2. \A u \in T : u # t => s.inDegree[u] = w(u) + r(u)
    BY <1>3, <1>4
  <2> HIDE DEF left
  <2> QED BY <1>0, <1>1, <1>5, <2>1, <2>2
<1>8. t \notin Range(s.result) /\ t \notin Range(s.queue)
  BY <1>0, <1>5 DEF Sorting
<1> DEFINE q == n.queue
<1>9. /\ q \in Seq(T) /\ Range(q) = IF left = 0 THEN Range(s.queue) \cup {t} ELSE Range(s.queue)
      /\ \A i \in 1..Len(q) : \/ i \in 1..Len(s.queue) /\ q[i] = s.queue[i]
                              \/ i = Len(s.queue) + 1 /\ q[i] = t
  <2>1. q = IF left = 0 THEN Append(s.queue, t) ELSE s.queue
    BY <1>2
  <2> HIDE DEF q, left
  <2>2. CASE left = 0
    <3>1. q = Append(s.queue, t)
      BY <2>1, <2>2
    <3>2. /\ q \in Seq(T) /\ Range(q) = Range(s.queue) \cup {t} /\ Len(q) = Len(s.queue) + 1
          /\ \A i \in 1..Len(s.queue) : q[i] = s.queue[i]
          /\ q[Len(s.queue) + 1] = t
      BY <1>0, <1>1, <3>1, RangeAppend
    <3>3. Len(s.queue) \in Nat
      BY <1>1
    <3> QED BY <2>2, <3>2, <3>3
  <2>3. CASE left # 0
    BY <1>1, <2>1, <2>3
  <2> QED BY <2>2, <2>3
<1>10. n \in SortState(T) /\ n.result = s.result
  <2> HIDE DEF left
  <2> QED BY <1>1, <1>2, <1>6, <1>9 DEF SortState
<1>11. \A i \in 1..Len(s.queue) : s.queue[i] # t
  BY <1>1, <1>8 DEF Range
<1>12. \A i \in 1..Len(s.result) : s.result[i] # t
  BY <1>1, <1>8 DEF Range
<1>13. Len(s.queue) \in Nat
  BY <1>1
<1> HIDE DEF q
<1>14. \A i, j \in 1..Len(q) : q[i] = q[j] => i = j
  <2>1. \A i, j \in 1..Len(s.queue) : s.queue[i] = s.queue[j] => i = j
    BY DEF Sorting
  <2> QED BY <1>9, <1>11, <1>13, <2>1
<1>15. \A i \in 1..Len(s.result), j \in 1..Len(q) : s.result[i] # q[j]
  <2>1. \A i \in 1..Len(s.result), j \in 1..Len(s.queue) : s.result[i] # s.queue[j]
    BY DEF Sorting
  <2>2. ASSUME NEW i \in 1..Len(s.result), NEW j \in 1..Len(q) PROVE s.result[i] # q[j]
    <3> QED BY <1>9, <1>12, <2>1
  <2> QED BY <2>2
<1>16. \A u \in T : n.inDegree[u] = 0 <=> u \in Range(s.result) \cup Range(q)
  <2>1. \A u \in T : s.inDegree[u] = 0 <=> u \in Range(s.result) \cup Range(s.queue)
    BY DEF Sorting
  <2>2. ASSUME NEW u \in T, u # t PROVE n.inDegree[u] = s.inDegree[u]
    BY <1>3, <1>4, <1>6, <2>2
  <2>3. n.inDegree[t] = left
    BY <1>0, <1>5, <1>6
  <2> HIDE DEF left
  <2> QED BY <1>8, <1>9, <2>1, <2>2, <2>3
<1>17. /\ \A i, j \in 1..Len(s.result) : s.result[i] = s.result[j] => i = j
       /\ \A i \in 1..Len(s.result) : \A d \in T :
            <<s.result[i], d>> \in Range(E) => \E j \in 1..(i - 1) : s.result[j] = d
  BY DEF Sorting
<1>18. Sorting(T, E, n, D, k + 1)
  BY <1>6, <1>10, <1>14, <1>15, <1>16, <1>17 DEF Sorting, q, w, r
<1> QED BY <1>10, <1>18 DEF n, t


\* A task that is sorted is waited for no longer, by any call that named it.
LEMMA WaitsLess ==
    ASSUME NEW T, NEW E \in Seq(T \X T), NEW done, NEW h, h \notin done, NEW u \in T
    PROVE  Cardinality(Waits(E, done, u)) =
             Cardinality(Waits(E, done \cup {h}, u)) + Cardinality(Asked(E, u, h))
<1> DEFINE W == Waits(E, done, u)
           R == Waits(E, done \cup {h}, u)
           C == Asked(E, u, h)
<1>1. Len(E) \in Nat /\ \A i \in 1..Len(E) : E[i] = <<E[i][1], E[i][2]>>
  <2>1. \A i \in 1..Len(E) : E[i] \in T \X T
    OBVIOUS
  <2> QED BY <2>1
<1>2. W = R \cup C /\ R \cap C = {}
  BY <1>1 DEF Waits, Asked
<1>3. R \subseteq 1..Len(E) /\ C \subseteq 1..Len(E)
  BY DEF Waits, Asked
<1> HIDE DEF W, R, C
<1>4. IsFiniteSet(R) /\ IsFiniteSet(C) /\ Cardinality(R) \in Nat /\ Cardinality(C) \in Nat
  BY <1>1, <1>3, PartFinite
<1>5. Cardinality(R \cup C) = Cardinality(R) + Cardinality(C) - Cardinality(R \cap C)
  BY <1>4, FS_Union
<1>6. Cardinality(R \cap C) = 0
  BY <1>2, FS_EmptySet
<1> QED BY <1>2, <1>4, <1>5, <1>6 DEF W, R, C

\* Nothing comes in an empty sequence.
LEMMA NoPlaces == \A u : Cardinality(Places(<<>>, 0, u)) = 0
<1>1. \A u : Places(<<>>, 0, u) = {}
  BY DEF Places
<1> QED BY <1>1, FS_EmptySet

\* A task that waits for nothing depends on tasks that are sorted.
LEMMA NothingLeft ==
    ASSUME NEW T, NEW E \in Seq(T \X T), NEW done, NEW t \in T, NEW d \in T,
           Cardinality(Waits(E, done, t)) = 0, <<t, d>> \in Range(E)
    PROVE  d \in done
<1>1. PICK i \in 1..Len(E) : E[i] = <<t, d>>
  <2>1. DOMAIN E = 1..Len(E)
    OBVIOUS
  <2> QED BY <2>1 DEF Range
<1>2. IsFiniteSet(Waits(E, done, t))
  <2>1. Waits(E, done, t) \subseteq 1..Len(E) /\ Len(E) \in Nat
    BY DEF Waits
  <2> QED BY <2>1, PartFinite
<1>3. Waits(E, done, t) = {}
  BY <1>2, FS_EmptySet
<1>4. E[i][1] = t /\ E[i][2] = d
  BY <1>1
<1> QED BY <1>3, <1>4 DEF Waits

\* The head of the queue is moved to the result.
LEMMA DequeueFirst ==
    ASSUME NEW T, NEW E \in Seq(T \X T), NEW s, Sorting(T, E, s, <<>>, 0), s.queue # <<>>
    PROVE  Sorting(T, E, [inDegree |-> s.inDegree, queue |-> Tail(s.queue), result |-> Append(s.result, Head(s.queue))],
                   Dependents(E, Head(s.queue)), 0)
<1> DEFINE deg == s.inDegree
           q == s.queue
           r == s.result
           h == Head(q)
           D == Dependents(E, h)
           n == [inDegree |-> deg, queue |-> Tail(q), result |-> Append(r, h)]
<1>1. deg \in [T -> Nat] /\ q \in Seq(T) /\ r \in Seq(T) /\ q # <<>>
  BY DEF Sorting, SortState
<1>2. /\ \A u \in T : deg[u] = Cardinality(Waits(E, Range(r), u)) + Cardinality(Places(<<>>, 0, u))
      /\ \A i, j \in 1..Len(r) : r[i] = r[j] => i = j
      /\ \A i, j \in 1..Len(q) : q[i] = q[j] => i = j
      /\ \A i \in 1..Len(r), j \in 1..Len(q) : r[i] # q[j]
      /\ \A u \in T : deg[u] = 0 <=> u \in Range(r) \cup Range(q)
      /\ \A i \in 1..Len(r) : \A d \in T : <<r[i], d>> \in Range(E) => \E j \in 1..(i - 1) : r[j] = d
  BY DEF Sorting
<1> HIDE DEF deg, q, r
<1>3. /\ h \in T /\ Tail(q) \in Seq(T) /\ Len(Tail(q)) = Len(q) - 1 /\ h = q[1] /\ 1 \in 1..Len(q)
      /\ \A i \in 1..Len(Tail(q)) : i + 1 \in 1..Len(q) /\ Tail(q)[i] = q[i + 1]
      /\ h \notin Range(Tail(q))
      /\ Range(q) = Range(Tail(q)) \cup {h}
  BY <1>1, <1>2, RangeTail
<1>4. /\ Append(r, h) \in Seq(T) /\ Len(Append(r, h)) = Len(r) + 1
      /\ \A i \in 1..Len(r) : Append(r, h)[i] = r[i]
      /\ Append(r, h)[Len(r) + 1] = h
      /\ Range(Append(r, h)) = Range(r) \cup {h}
  BY <1>1, <1>3, RangeAppend
<1> HIDE DEF h
<1> DEFINE A == Append(r, h)
           B == Tail(q)
<1>5. Len(r) \in Nat /\ Len(q) \in Nat /\ Range(r) = {r[i] : i \in 1..Len(r)}
  <2>1. DOMAIN r = 1..Len(r)
    BY <1>1
  <2> QED BY <1>1, <2>1 DEF Range
<1>6. h \notin Range(r)
  BY <1>2, <1>3, <1>5
<1>7. D \in Seq(T) /\ \A u \in T : Cardinality(Places(D, 0, u)) = Cardinality(Asked(E, u, h))
  BY <1>3, DependentsCount
<1>8. \A u \in T : Cardinality(Waits(E, Range(r), u)) = Cardinality(Waits(E, Range(A), u)) + Cardinality(Places(D, 0, u))
  <2> TAKE u \in T
  <2>1. Cardinality(Waits(E, Range(r), u)) =
          Cardinality(Waits(E, Range(r) \cup {h}, u)) + Cardinality(Asked(E, u, h))
    <3> DEFINE done == Range(r)
    <3>1. h \notin done
      BY <1>6
    <3> HIDE DEF done, D, n, A, B
    <3>2. Cardinality(Waits(E, done, u)) = Cardinality(Waits(E, done \cup {h}, u)) + Cardinality(Asked(E, u, h))
      BY <3>1, WaitsLess
    <3> QED BY <3>2 DEF done
  <2> QED BY <1>4, <1>7, <2>1
<1>9. \A u \in T : deg[u] = Cardinality(Waits(E, Range(A), u)) + Cardinality(Places(D, 0, u))
  <2> TAKE u \in T
  <2>1. deg[u] = Cardinality(Waits(E, Range(r), u)) + 0 /\ deg[u] \in Nat
    BY <1>1, <1>2, NoPlaces
  <2>2. Cardinality(Waits(E, Range(r), u)) \in Nat
    <3>1. Waits(E, Range(r), u) \subseteq 1..Len(E) /\ Len(E) \in Nat
      BY DEF Waits
    <3> QED BY <3>1, PartFinite
  <2> QED BY <1>8, <2>1, <2>2
<1>10. deg[h] = 0 /\ Cardinality(Waits(E, Range(r), h)) = 0
  <2>1. deg[h] = 0
    BY <1>2, <1>3
  <2>2. deg[h] = Cardinality(Waits(E, Range(r), h)) + 0
    BY <1>2, <1>3, NoPlaces
  <2>3. Cardinality(Waits(E, Range(r), h)) \in Nat
    <3>1. Waits(E, Range(r), h) \subseteq 1..Len(E) /\ Len(E) \in Nat
      BY DEF Waits
    <3> QED BY <3>1, PartFinite
  <2> QED BY <2>1, <2>2, <2>3
<1>11. \A i \in 1..Len(A) : \A d \in T : <<A[i], d>> \in Range(E) => \E j \in 1..(i - 1) : A[j] = d
  <2> TAKE i \in 1..Len(A)
  <2> TAKE d \in T
  <2> HAVE <<A[i], d>> \in Range(E)
  <2>1. CASE i \in 1..Len(r)
    <3>1. PICK j \in 1..(i - 1) : r[j] = d
      BY <1>2, <1>4, <2>1
    <3>2. j \in 1..Len(r)
      BY <2>1, <1>5
    <3> QED BY <1>4, <3>1, <3>2
  <2>2. CASE i \notin 1..Len(r)
    <3>1. i = Len(r) + 1 /\ A[i] = h
      BY <1>4, <1>5, <2>2
    <3>2. d \in Range(r)
      BY <1>3, <1>10, <3>1, NothingLeft
    <3>3. PICK j \in 1..Len(r) : r[j] = d
      BY <1>5, <3>2
    <3> QED BY <1>4, <1>5, <3>1, <3>3
  <2> QED BY <2>1, <2>2
<1>11a. \A i \in 1..Len(A) : \/ i \in 1..Len(r) /\ A[i] = r[i]
                             \/ i = Len(r) + 1 /\ A[i] = h
  BY <1>4, <1>5
<1>12. \A i, j \in 1..Len(A) : A[i] = A[j] => i = j
  <2>2. \A i \in 1..Len(r) : r[i] # h
    BY <1>5, <1>6
  <2> HIDE DEF A
  <2> QED BY <1>2, <1>11a, <2>2
<1>13. \A i, j \in 1..Len(B) : B[i] = B[j] => i = j
  <2> TAKE i, j \in 1..Len(B)
  <2> HAVE B[i] = B[j]
  <2>1. i + 1 = j + 1
    BY <1>2, <1>3
  <2> QED BY <1>3, <1>5, <2>1
<1>14. \A i \in 1..Len(A), j \in 1..Len(B) : A[i] # B[j]
  <2> TAKE i \in 1..Len(A), j \in 1..Len(B)
  <2>1. j + 1 \in 1..Len(q) /\ B[j] = q[j + 1]
    BY <1>3
  <2>2. B[j] # h
    <3>1. j + 1 # 1
      BY <1>3, <1>5
    <3> QED BY <1>2, <1>3, <2>1, <3>1
  <2>3. CASE i \in 1..Len(r)
    <3>1. A[i] = r[i]
      BY <1>4, <2>3
    <3> QED BY <1>2, <2>1, <2>3, <3>1
  <2>4. CASE i \notin 1..Len(r)
    <3> HIDE DEF A
    <3>1. A[i] = h
      BY <1>11a, <2>4
    <3> QED BY <2>2, <3>1
  <2> QED BY <2>3, <2>4
<1>15. \A u \in T : deg[u] = 0 <=> u \in Range(A) \cup Range(B)
  BY <1>2, <1>3, <1>4
<1>16. n \in SortState(T) /\ n.inDegree = deg /\ n.queue = B /\ n.result = A
  BY <1>1, <1>3, <1>4 DEF SortState
<1> HIDE DEF n, A, B, D
<1>17. Sorting(T, E, n, D, 0)
  BY <1>9, <1>11, <1>12, <1>13, <1>14, <1>15, <1>16 DEF Sorting
<1> QED BY <1>17 DEF n, D, h, q, deg, r

RelaxTurn(a, b, c, s, t) == Relax(s, t)
RelaxFold == INSTANCE FoldFacts WITH op <- RelaxTurn, P <- Anything

\* One turn of the outer loop sorts one task more, if one is queued.
LEMMA DequeueKeeps ==
    ASSUME NEW T, NEW E \in Seq(T \X T), NEW s, Sorting(T, E, s, <<>>, 0)
    PROVE  /\ Sorting(T, E, Dequeue(s, E), <<>>, 0)
           /\ s.queue = <<>> => Dequeue(s, E) = s
           /\ s.queue # <<>> => Len(Dequeue(s, E).result) = Len(s.result) + 1
<1>1. CASE s.queue = <<>>
  BY <1>1 DEF Dequeue
<1>2. CASE s.queue # <<>>
  <2> DEFINE D == Dependents(E, Head(s.queue))
             m == [inDegree |-> s.inDegree, queue |-> Tail(s.queue), result |-> Append(s.result, Head(s.queue))]
             n == Len(D)
             iter == RelaxFold!Iter(0, 0, 0, m, D)
             Right(t, k) == Sorting(T, E, t, D, k) /\ t.result = m.result
             G == {k \in 0..n : Right(iter[1..k], k)}
  <2>0. s.queue \in Seq(T) /\ s.result \in Seq(T) /\ Head(s.queue) \in T
    <3>1. s.queue \in Seq(T) /\ s.result \in Seq(T)
      BY DEF Sorting, SortState
    <3> QED BY <1>2, <3>1
  <2>1. D \in Seq(T)
    BY <2>0, DependentsCount
  <2>2. n \in Nat /\ DOMAIN D = 1..n /\ \A i \in 1..n : D[i] \in T
    <3> HIDE DEF D
    <3> QED BY <2>1
  <2>3. Dequeue(s, E) = RelaxFold!Run(0, 0, 0, m, D)
    BY <1>2 DEF Dequeue, RelaxTurn, RelaxFold!Run, FoldLeft, MapThenFoldSet, Max, RelaxFold!Largest
  <2>4. Sorting(T, E, m, D, 0)
    BY <1>2, DequeueFirst
  <2>5. Len(m.result) = Len(s.result) + 1
    BY <2>0
  <2> HIDE DEF D, m
  <2>6. /\ iter[{}] = m
        /\ \A k \in 0..(n - 1) : iter[1..(k + 1)] = RelaxTurn(0, 0, 0, iter[1..k], D[k + 1])
        /\ RelaxFold!Run(0, 0, 0, m, D) = iter[1..n]
    BY <2>2, RelaxFold!FoldRuns
  <2> HIDE DEF iter
  <2>7. 0 \in G
    <3>1. 1..0 = {}
      OBVIOUS
    <3> QED BY <2>2, <2>4, <2>6, <3>1
  <2>8. ASSUME NEW k \in 0..(n - 1), k \in G PROVE k + 1 \in G
    <3> DEFINE t == iter[1..k]
    <3>1. Sorting(T, E, t, D, k) /\ t.result = m.result
      BY <2>8
    <3>2. iter[1..(k + 1)] = Relax(t, D[k + 1])
      BY <2>6 DEF RelaxTurn
    <3>3. k \in 0..(Len(D) - 1) /\ k + 1 \in 0..n
      BY <2>2
    <3> HIDE DEF t
    <3>4. Right(iter[1..(k + 1)], k + 1)
      BY <2>1, <3>1, <3>2, <3>3, RelaxKeeps
    <3> QED BY <3>3, <3>4
  <2>9. n \in G
    <3> HIDE DEF G
    <3> QED BY <2>2, <2>7, <2>8, RelaxFold!UpTo
  <2>10. Sorting(T, E, Dequeue(s, E), D, n) /\ Dequeue(s, E).result = m.result
    BY <2>3, <2>6, <2>9
  <2>11. \A u : Cardinality(Places(D, n, u)) = Cardinality(Places(<<>>, 0, u))
    <3>1. \A u : Places(D, n, u) = {} /\ Places(<<>>, 0, u) = {}
      BY <2>2 DEF Places
    <3> QED BY <3>1
  <2>12. Sorting(T, E, Dequeue(s, E), <<>>, 0)
    BY <2>10, <2>11 DEF Sorting
  <2> QED BY <1>2, <2>5, <2>10, <2>12
<1> QED BY <1>1, <1>2


DequeueTurn(edges, b, c, s, i) == Dequeue(s, edges)
DequeueFold == INSTANCE FoldFacts WITH op <- DequeueTurn, P <- Anything

\* The state before the first turn: nothing sorted, and queued what depends on nothing.
LEMMA SortBegins ==
    ASSUME NEW T, IsFiniteSet(T), NEW E \in Seq(T \X T), NEW first \in FirstQueues(T, E)
    PROVE  Sorting(T, E, [inDegree |-> InDegrees(T, E), queue |-> first, result |-> <<>>], <<>>, 0)
<1> DEFINE deg == InDegrees(T, E)
           S == {t \in T : deg[t] = 0}
           n == Cardinality(S)
           start == [inDegree |-> deg, queue |-> first, result |-> <<>>]
<1>1. Len(E) \in Nat
  OBVIOUS
<1>2. \A u : Waits(E, {}, u) = {i \in 1..Len(E) : E[i][1] = u}
  BY DEF Waits
<1>3. \A u : Cardinality(Waits(E, {}, u)) \in Nat
  <2>1. \A u : Waits(E, {}, u) \subseteq 1..Len(E)
    BY DEF Waits
  <2> QED BY <1>1, <2>1, PartFinite
<1>4. deg \in [T -> Nat] /\ \A u \in T : deg[u] = Cardinality(Waits(E, {}, u))
  <2>1. deg = [u \in T |-> Cardinality(Waits(E, {}, u))]
    BY <1>2 DEF InDegrees
  <2> HIDE DEF deg
  <2> QED BY <1>3, <2>1
<1>5. first \in [1..n -> S] /\ \A i, j \in 1..n : i # j => first[i] # first[j]
  BY DEF FirstQueues, SetToSeqs
<1> HIDE DEF deg
<1>6. IsFiniteSet(S) /\ n \in Nat
  <2>1. S \in SUBSET T
    OBVIOUS
  <2> HIDE DEF S
  <2> QED BY <2>1, FS_Subset, FS_CardinalityType
<1>7. Range(first) = S
  <2>1. first \in Injection(1..n, S)
    BY <1>5 DEF Injection, IsInjective
  <2>2. IsFiniteSet(1..n) /\ Cardinality(1..n) = n
    BY <1>6, FS_Interval
  <2> HIDE DEF S, n
  <2>3. Cardinality(1..n) = Cardinality(S)
    BY <2>2 DEF n
  <2>4. first \in Surjection(1..n, S)
    BY <1>6, <2>1, <2>3, FS_Injection
  <2> QED BY <1>5, <2>4 DEF Surjection, Range
<1>8. first \in Seq(T) /\ Len(first) = n
  <2>1. first \in [1..n -> T]
    BY <1>5
  <2> HIDE DEF n, S
  <2>2. first \in Seq(T)
    BY <1>6, <2>1
  <2>3. DOMAIN first = 1..n
    BY <2>1
  <2>4. DOMAIN first = 1..Len(first) /\ Len(first) \in Nat
    BY <2>2
  <2> QED BY <1>6, <2>2, <2>3, <2>4
<1>9. start \in SortState(T) /\ start.inDegree = deg /\ start.queue = first /\ start.result = <<>>
  <2>1. <<>> \in Seq(T)
    OBVIOUS
  <2> QED BY <1>4, <1>8, <2>1 DEF SortState
<1>10. Range(<<>>) = {} /\ Len(<<>>) = 0
  BY DEF Range
<1> HIDE DEF start, n
<1>11. \A u \in T : deg[u] = Cardinality(Waits(E, Range(<<>>), u)) + Cardinality(Places(<<>>, 0, u))
  <2> TAKE u \in T
  <2>1. deg[u] \in Nat /\ deg[u] = Cardinality(Waits(E, {}, u))
    BY <1>4
  <2>2. Cardinality(Places(<<>>, 0, u)) = 0
    BY NoPlaces
  <2>3. Cardinality(Waits(E, Range(<<>>), u)) = Cardinality(Waits(E, {}, u))
    BY <1>10, Zenon
  <2>4. Cardinality(Waits(E, Range(<<>>), u)) = deg[u]
    BY <2>1, <2>3, Zenon
  <2> QED BY <2>1, <2>2, <2>4
<1>12. \A u \in T : deg[u] = 0 <=> u \in Range(<<>>) \cup Range(first)
  BY <1>7, <1>10
<1>13. Sorting(T, E, start, <<>>, 0)
  BY <1>5, <1>8, <1>9, <1>10, <1>11, <1>12 DEF Sorting
<1> QED BY <1>13 DEF start, deg

\* The loop ends with an empty queue, or when every task is sorted.
LEMMA SortEnds ==
    ASSUME NEW T, IsFiniteSet(T), NEW E \in Seq(T \X T), NEW first \in FirstQueues(T, E)
    PROVE  \E s : /\ Sorting(T, E, s, <<>>, 0)
                  /\ s.queue = <<>> \/ Len(s.result) = Cardinality(T)
                  /\ topologicalSort(T, E, first) = [order |-> s.result, fails |-> Len(s.result) # Cardinality(T)]
<1> DEFINE n == Cardinality(T)
           turns == [i \in 1..n |-> i]
           start == [inDegree |-> InDegrees(T, E), queue |-> first, result |-> <<>>]
           iter == DequeueFold!Iter(E, 0, 0, start, turns)
           Right(s, k) == Sorting(T, E, s, <<>>, 0) /\ (s.queue = <<>> \/ Len(s.result) = k)
           G == {k \in 0..n : Right(iter[1..k], k)}
<1>1. n \in Nat
  BY FS_CardinalityType
<1>2. Sorting(T, E, start, <<>>, 0) /\ start.result = <<>>
  BY SortBegins
<1>3. topologicalSort(T, E, first) =
        LET s == DequeueFold!Run(E, 0, 0, start, turns) IN [order |-> s.result, fails |-> Len(s.result) # n]
  BY DEF topologicalSort, DequeueTurn, DequeueFold!Run, FoldLeft, MapThenFoldSet, Max, DequeueFold!Largest
<1>4. DOMAIN turns = 1..n
  OBVIOUS
<1> HIDE DEF n, turns, start
<1>5. /\ iter[{}] = start
      /\ \A k \in 0..(n - 1) : iter[1..(k + 1)] = DequeueTurn(E, 0, 0, iter[1..k], turns[k + 1])
      /\ DequeueFold!Run(E, 0, 0, start, turns) = iter[1..n]
  BY <1>1, <1>4, DequeueFold!FoldRuns
<1> HIDE DEF iter
<1>6. 0 \in G
  <2>1. 1..0 = {} /\ Len(<<>>) = 0
    OBVIOUS
  <2> QED BY <1>1, <1>2, <1>5, <2>1
<1>7. ASSUME NEW k \in 0..(n - 1), k \in G PROVE k + 1 \in G
  <2> DEFINE s == iter[1..k]
  <2>1. Sorting(T, E, s, <<>>, 0) /\ (s.queue = <<>> \/ Len(s.result) = k)
    BY <1>7
  <2>2. iter[1..(k + 1)] = Dequeue(s, E) /\ k + 1 \in 0..n
    BY <1>1, <1>5 DEF DequeueTurn
  <2> HIDE DEF s
  <2>3. /\ Sorting(T, E, Dequeue(s, E), <<>>, 0)
        /\ s.queue = <<>> => Dequeue(s, E) = s
        /\ s.queue # <<>> => Len(Dequeue(s, E).result) = Len(s.result) + 1
    BY <2>1, DequeueKeeps
  <2>4. Right(Dequeue(s, E), k + 1)
    BY <2>1, <2>3
  <2> QED BY <2>2, <2>4
<1>8. n \in G
  <2> HIDE DEF G
  <2> QED BY <1>1, <1>6, <1>7, DequeueFold!UpTo
<1>9. Right(iter[1..n], n)
  BY <1>8
<1> QED BY <1>3, <1>5, <1>9 DEF n

\* topologicalSort is Kahn's algorithm done right (scheduler.go): whatever the
\* graph, repeated calls of AddDependency and dependencies on oneself included,
\* and whatever the order in which the Go map yields the first tasks, it fails
\* if and only if there is a cycle, and what it has sorted until then is in
\* topological order.
THEOREM SortsOrFails ==
    ASSUME NEW T, IsFiniteSet(T), NEW E \in Seq(T \X T), NEW first \in FirstQueues(T, E)
    PROVE  LET sorted == topologicalSort(T, E, first)
           IN  /\ IsTopologicalOrder(sorted.order, E)
               /\ sorted.fails <=> Cyclic(T, E)
               /\ ~sorted.fails => Range(sorted.order) = T
<1>1. PICK s : /\ Sorting(T, E, s, <<>>, 0)
               /\ s.queue = <<>> \/ Len(s.result) = Cardinality(T)
               /\ topologicalSort(T, E, first) = [order |-> s.result, fails |-> Len(s.result) # Cardinality(T)]
  BY SortEnds
<1> DEFINE r == s.result
           n == Cardinality(T)
<1>2. r \in Seq(T) /\ s.queue \in Seq(T)
  BY <1>1 DEF Sorting, SortState
<1>3. /\ \A u \in T : s.inDegree[u] = Cardinality(Waits(E, Range(r), u)) + Cardinality(Places(<<>>, 0, u))
      /\ \A i, j \in 1..Len(r) : r[i] = r[j] => i = j
      /\ \A u \in T : s.inDegree[u] = 0 <=> u \in Range(r) \cup Range(s.queue)
      /\ \A i \in 1..Len(r) : \A d \in T : <<r[i], d>> \in Range(E) => \E j \in 1..(i - 1) : r[j] = d
  BY <1>1 DEF Sorting
<1>4. topologicalSort(T, E, first).order = r /\ (topologicalSort(T, E, first).fails <=> Len(r) # n)
  <2> DEFINE sorted == topologicalSort(T, E, first)
  <2>1. sorted = [order |-> r, fails |-> Len(r) # n]
    BY <1>1, Zenon
  <2> HIDE DEF r, n, sorted
  <2>2. sorted.order = r
    BY <2>1
  <2>3. sorted.fails = (Len(r) # n)
    BY <2>1
  <2> QED BY <2>2, <2>3, Zenon DEF sorted
<1> HIDE DEF r, n
<1>5. DOMAIN r = 1..Len(r) /\ Len(r) \in Nat /\ Range(r) \subseteq T
  <2>1. DOMAIN r = 1..Len(r) /\ Len(r) \in Nat /\ \A i \in 1..Len(r) : r[i] \in T
    BY <1>2
  <2> QED BY <2>1 DEF Range
<1>6. IsTopologicalOrder(r, E)
  <2>1. IsInjective(r)
    BY <1>3, <1>5 DEF IsInjective
  <2>2. ASSUME NEW e \in Range(E), NEW i \in DOMAIN r, r[i] = e[1]
        PROVE  \E j \in 1..(i - 1) : r[j] = e[2]
    <3>1. e \in T \X T
      <4>1. \A x \in DOMAIN E : E[x] \in T \X T
        OBVIOUS
      <4> QED BY <4>1 DEF Range
    <3>2. e[2] \in T /\ <<r[i], e[2]>> \in Range(E)
      BY <2>2, <3>1
    <3> QED BY <1>3, <1>5, <3>2
  <2> QED BY <2>1, <2>2 DEF IsTopologicalOrder
<1>7. r \in Injection(1..Len(r), Range(r)) /\ r \in Surjection(1..Len(r), Range(r))
  <2>1. r \in [1..Len(r) -> Range(r)]
    BY <1>2, <1>5 DEF Range
  <2>2. r \in Injection(1..Len(r), Range(r))
    BY <1>3, <1>5, <2>1 DEF Injection, IsInjective
  <2>3. r \in Surjection(1..Len(r), Range(r))
    BY <1>5, <2>1 DEF Surjection, Range
  <2> QED BY <2>2, <2>3
<1>8. Len(r) = n <=> Range(r) = T
  <2>1. IsFiniteSet(1..Len(r)) /\ Cardinality(1..Len(r)) = Len(r)
    <3> DEFINE m == Len(r)
    <3>1. m \in Nat
      BY <1>5
    <3> HIDE DEF m
    <3>2. IsFiniteSet(1..m) /\ Cardinality(1..m) = m
      BY <3>1, FS_Interval
    <3> QED BY <3>2 DEF m
  <2>2. IsFiniteSet(Range(r))
    BY <1>5, FS_Subset
  <2>3. Cardinality(Range(r)) = Len(r)
    BY <1>7, <2>1, <2>2, FS_Injection
  <2>4. Cardinality(T) = Cardinality(Range(r)) => T = Range(r)
    BY <1>5, FS_Subset
  <2> QED BY <2>3, <2>4 DEF n
<1>9. ASSUME Len(r) # n PROVE Cyclic(T, E)
  <2> DEFINE S == T \ Range(r)
  <2>1. S \in (SUBSET T) \ {{}}
    BY <1>5, <1>8, <1>9
  <2>2. s.queue = <<>>
    BY <1>1, <1>9 DEF r, n
  <2>3. Range(s.queue) = {}
    BY <2>2 DEF Range
  <2>4. ASSUME NEW t \in S PROVE \E d \in S : <<t, d>> \in Range(E)
    <3>1. s.inDegree[t] # 0 /\ s.inDegree[t] = Cardinality(Waits(E, Range(r), t)) + 0
      BY <1>3, <2>3, NoPlaces
    <3>2. Waits(E, Range(r), t) # {}
      <4>1. ASSUME Waits(E, Range(r), t) = {} PROVE FALSE
        <5>1. Cardinality(Waits(E, Range(r), t)) = 0
          BY <4>1, FS_EmptySet, Zenon
        <5>2. s.inDegree[t] = 0 + 0
          BY <3>1, <5>1, Zenon
        <5> QED BY <3>1, <5>2
      <4> QED BY <4>1
    <3>3. PICK i \in 1..Len(E) : E[i][1] = t /\ E[i][2] \notin Range(r)
      BY <3>2 DEF Waits
    <3>4. E[i] \in T \X T /\ i \in DOMAIN E
      OBVIOUS
    <3>5. E[i] \in Range(E) /\ E[i] = <<t, E[i][2]>> /\ E[i][2] \in S
      BY <3>3, <3>4 DEF Range
    <3> QED BY <3>5
  <2> HIDE DEF S
  <2> QED BY <2>1, <2>4 DEF Cyclic
<1>10. ASSUME Len(r) = n, Cyclic(T, E) PROVE FALSE
  <2>1. PICK S \in (SUBSET T) \ {{}} : \A t \in S : \E d \in S : <<t, d>> \in Range(E)
    BY <1>10 DEF Cyclic
  <2> DEFINE G == {k \in 0..Len(r) : \A i \in 1..k : r[i] \notin S}
  <2>2. 0 \in G
    BY <1>5
  <2>3. ASSUME NEW k \in 0..(Len(r) - 1), k \in G PROVE k + 1 \in G
    <3>1. ASSUME r[k + 1] \in S PROVE FALSE
      <4>1. PICK d \in S : <<r[k + 1], d>> \in Range(E)
        BY <2>1, <3>1
      <4>2. k + 1 \in 1..Len(r) /\ d \in T
        BY <1>5, <2>1
      <4>3. PICK j \in 1..((k + 1) - 1) : r[j] = d
        BY <1>3, <4>1, <4>2
      <4>4. j \in 1..k
        BY <1>5
      <4> QED BY <2>3, <4>1, <4>3, <4>4
    <3>2. k + 1 \in 0..Len(r) /\ \A i \in 1..(k + 1) : i \in 1..k \/ i = k + 1
      BY <1>5
    <3> QED BY <2>3, <3>1, <3>2
  <2>4. Len(r) \in G
    <3> HIDE DEF G
    <3> QED BY <1>5, <2>2, <2>3, DequeueFold!UpTo
  <2>5. PICK t \in S : t \in T
    BY <2>1
  <2>6. PICK i \in 1..Len(r) : r[i] = t
    <3>1. t \in Range(r)
      BY <1>8, <1>10, <2>5
    <3> QED BY <1>5, <3>1 DEF Range
  <2> QED BY <2>4, <2>5, <2>6
<1>11. topologicalSort(T, E, first).fails <=> Cyclic(T, E)
  BY <1>4, <1>9, <1>10
<1> HIDE <1>1
<1> QED BY <1>4, <1>6, <1>8, <1>11

\* What Start takes topologicalSort for in BuildScheduler is what it is: with the
\* dependencies that the calls of AddDependency recorded, the algorithm fails if
\* and only if topologicalSortFails, the condition on which Start returns an error.
THEOREM StartRefusesCycles ==
    ASSUME IsFiniteSet(tasks), NEW E \in Seq(tasks \X tasks), NEW first \in FirstQueues(tasks, E),
           \A t \in tasks : Members(deps[t]) = {d \in tasks : <<t, d>> \in Range(E)}
    PROVE  topologicalSort(tasks, E, first).fails <=> topologicalSortFails
<1>1. topologicalSort(tasks, E, first).fails <=> Cyclic(tasks, E)
  BY SortsOrFails
<1>2. ASSUME NEW S \in (SUBSET tasks) \ {{}}
      PROVE  (\A t \in S : \E d \in S : <<t, d>> \in Range(E)) <=> (\A t \in S : Members(deps[t]) \cap S # {})
  <2>1. ASSUME NEW t \in S
        PROVE  (\E d \in S : <<t, d>> \in Range(E)) <=> Members(deps[t]) \cap S # {}
    <3>1. \A d \in S : d \in Members(deps[t]) <=> <<t, d>> \in Range(E)
      BY <2>1
    <3> QED BY <3>1
  <2> QED BY <2>1
<1>3. Cyclic(tasks, E) <=> topologicalSortFails
  BY <1>2 DEF Cyclic, topologicalSortFails
<1> QED BY <1>1, <1>3
=============================================================================
