---------------------------- MODULE DaemonProofs ----------------------------
(***************************************************************************)
(* Proofs about the daemon: its job queue (JobQueue) and the stream of one *)
(* installation (InstallStream).  The two models share no variable; each   *)
(* theorem is about the specification it names.                            *)
(***************************************************************************)
EXTENDS JobQueue, InstallStream, TLAPS

(***************************************************************************)
(* The job queue.  What the conflict detector guarantees, for any number of*)
(* jobs, workers and packages: see SteadyConflictRefused in JobQueue.      *)
(***************************************************************************)

\* A new queue satisfies the invariant.
LEMMA InitIndInv == Init => IndInv
<1> SUFFICES ASSUME Init PROVE IndInv
    OBVIOUS
<1>1. TypeOK
  <2>1. queue \in Seq(Jobs) /\ Len(queue) <= QueueSize
    BY SizesAssumption DEF Init
  <2>2. status \in [Jobs -> ActiveStatus \union Terminal]
    BY DEF Init, ActiveStatus
  <2> QED BY <2>1, <2>2 DEF Init, TypeOK
<1>2. WorkerHasJob /\ CheckSound /\ StoredSound
  BY DEF Init, WorkerHasJob, CheckSound, StoredSound
<1> QED BY <1>1, <1>2 DEF IndInv

\* Submit, its conflict check included, keeps the types.
LEMMA SubmitTypes ==
    ASSUME NEW j \in Jobs, TypeOK, Submit(j)
    PROVE  TypeOK'
<1>1. CASE SubmitSnapshot(j)
  BY <1>1 DEF TypeOK, SubmitSnapshot, workerVars, submitVars, installVars, stopVars
<1>2. ASSUME NEW k \in Jobs, FilterRunning(j, k) PROVE TypeOK'
  BY <1>2 DEF TypeOK, FilterRunning, workerVars, submitVars, installVars, stopVars
<1>3. CASE FilterPending(j)
  BY <1>3 DEF TypeOK, FilterPending, workerVars, submitVars, installVars, stopVars
<1>4. ASSUME NEW k \in Jobs, SubmitConflict(j, k) PROVE TypeOK'
  BY <1>4 DEF TypeOK, SubmitConflict, workerVars, submitVars, installVars, stopVars
<1>5. CASE SubmitStore(j)
  BY <1>5 DEF TypeOK, SubmitStore, workerVars, submitVars, installVars, stopVars
<1>6. CASE SubmitEnqueue(j)
  BY <1>6, SizesAssumption DEF TypeOK, SubmitEnqueue, workerVars, submitVars, installVars, stopVars
<1>7. CASE SubmitFull(j)
  BY <1>7 DEF TypeOK, SubmitFull, workerVars, submitVars, installVars, stopVars
<1> QED BY <1>1, <1>2, <1>3, <1>4, <1>5, <1>6, <1>7 DEF Submit

\* Workers, installations, CancelJob and Stop keep the types.
LEMMA OtherTypes ==
    ASSUME TypeOK, WorkerHasJob,
           \/ \E w \in Workers : Worker(w)
           \/ \E j \in Jobs : Install(j) \/ CancelJob(j)
           \/ StopQueue
           \/ UNCHANGED vars
    PROVE  TypeOK'
<1>1. ASSUME NEW w \in Workers, WorkerExit(w) PROVE TypeOK'
  BY <1>1 DEF TypeOK, WorkerExit, workerVars, submitVars, installVars, stopVars
<1>2. ASSUME NEW w \in Workers, WorkerReceive(w) PROVE TypeOK'
  <2>1. /\ queue' \in Seq(Jobs) /\ Len(queue') <= QueueSize
        /\ Head(queue) \in Jobs
    BY <1>2, SizesAssumption DEF TypeOK, WorkerReceive
  <2> QED BY <1>2, <2>1 DEF TypeOK, WorkerReceive, workerVars, submitVars, installVars, stopVars
<1>3. ASSUME NEW w \in Workers, WorkerSkip(w) \/ WorkerCheck(w) PROVE TypeOK'
  BY <1>3 DEF TypeOK, WorkerSkip, WorkerCheck, workerVars, submitVars, installVars, stopVars
<1>4. ASSUME NEW w \in Workers, WorkerStart(w) PROVE TypeOK'
  <2>1. status' \in [Jobs -> ActiveStatus \union Terminal]
    BY <1>4 DEF TypeOK, WorkerStart, ActiveStatus
  <2>2. steady' \in [Jobs -> SUBSET Jobs]
    BY <1>4 DEF TypeOK, WorkerStart, Unsettle
  <2>3. installing' \in SUBSET Jobs
    BY <1>4 DEF TypeOK, WorkerStart, WorkerHasJob
  <2> QED BY <1>4, <2>1, <2>2, <2>3 DEF TypeOK, WorkerStart, workerVars, submitVars, installVars, stopVars
<1>5. ASSUME NEW w \in Workers, NEW err \in BOOLEAN, WorkerFinish(w, err) PROVE TypeOK'
  <2>1. status' \in [Jobs -> ActiveStatus \union Terminal]
    BY <1>5 DEF TypeOK, WorkerFinish, Terminal
  <2>2. steady' \in [Jobs -> SUBSET Jobs]
    BY <1>5 DEF TypeOK, WorkerFinish, Unsettle
  <2> QED BY <1>5, <2>1, <2>2 DEF TypeOK, WorkerFinish, workerVars, submitVars, installVars, stopVars
<1>6. ASSUME NEW j \in Jobs, NEW err \in BOOLEAN, InstallEnd(j, err) PROVE TypeOK'
  BY <1>6 DEF TypeOK, InstallEnd, workerVars, submitVars, installVars, stopVars
<1>7. ASSUME NEW j \in Jobs, CancelContext(j) \/ CancelStatus(j) PROVE TypeOK'
  <2>1. CASE CancelContext(j)
    BY <1>7, <2>1 DEF TypeOK, CancelContext, workerVars, submitVars, installVars, stopVars
  <2>2. CASE CancelStatus(j)
    <3>1. status' \in [Jobs -> ActiveStatus \union Terminal]
      BY <2>2 DEF TypeOK, CancelStatus, Terminal
    <3>2. steady' \in [Jobs -> SUBSET Jobs]
      BY <2>2 DEF TypeOK, CancelStatus, Unsettle
    <3> QED BY <1>7, <2>2, <3>1, <3>2 DEF TypeOK, CancelStatus, workerVars, submitVars, installVars, stopVars
  <2> QED BY <1>7, <2>1, <2>2
<1>8. ASSUME StopBegin \/ StopEnd \/ StopTimeout PROVE TypeOK'
  BY <1>8 DEF TypeOK, StopBegin, StopEnd, StopTimeout, workerVars, submitVars, installVars, stopVars
<1>9. CASE UNCHANGED vars
  BY <1>9 DEF TypeOK, vars, workerVars, submitVars, installVars, stopVars
<1> QED
  BY <1>1, <1>2, <1>3, <1>4, <1>5, <1>6, <1>7, <1>8, <1>9
     DEF Worker, Install, CancelJob, StopQueue

\* A worker that has left its select holds a job of the channel.
LEMMA WorkerHasJobKept ==
    ASSUME TypeOK, WorkerHasJob, [Next]_vars
    PROVE  WorkerHasJob'
<1>1. ASSUME NEW w \in Workers, WorkerReceive(w) PROVE WorkerHasJob'
  <2>1. Head(queue) \in Jobs
    BY <1>1 DEF TypeOK, WorkerReceive
  <2> QED BY <1>1, <2>1 DEF TypeOK, WorkerReceive, WorkerHasJob
<1>2. ASSUME NEW w \in Workers, Worker(w), ~WorkerReceive(w) PROVE WorkerHasJob'
  BY <1>2 DEF Worker, WorkerExit, WorkerSkip, WorkerCheck, WorkerStart,
              WorkerFinish, TypeOK, WorkerHasJob
<1>3. CASE UNCHANGED workerVars
  BY <1>3 DEF WorkerHasJob, workerVars
<1>4. ASSUME NEW j \in Jobs, Submit(j) PROVE UNCHANGED workerVars
  BY <1>4 DEF Submit, SubmitSnapshot, FilterRunning, FilterPending,
              SubmitConflict, SubmitStore, SubmitEnqueue, SubmitFull
<1>5. ASSUME NEW j \in Jobs, Install(j) \/ CancelJob(j) PROVE UNCHANGED workerVars
  BY <1>5 DEF Install, InstallEnd, CancelJob, CancelContext, CancelStatus
<1>6. CASE StopQueue
  BY <1>3, <1>6 DEF StopQueue, StopBegin, StopEnd, StopTimeout
<1>7. CASE UNCHANGED vars
  BY <1>3, <1>7 DEF vars
<1> QED BY <1>1, <1>2, <1>3, <1>4, <1>5, <1>6, <1>7 DEF Next, Idle

\* A step that writes no job's status and no check's state, or writes only the
\* status of jobs that are steady for nobody afterwards, keeps the checks sound.
LEMMA OtherSound ==
    ASSUME TypeOK, CheckSound, StoredSound,
           spc' = spc, unread' = unread, reading' = reading, active' = active,
           \/ status' = status /\ steady' = steady
           \/ \E k \in Jobs : /\ \A i \in Jobs \ {k} : status'[i] = status[i]
                              /\ Unsettle(k)
    PROVE  CheckSound' /\ StoredSound'
<1>1. CASE status' = status /\ steady' = steady
  BY <1>1 DEF CheckSound, StoredSound
<1>2. CASE \E k \in Jobs : /\ \A i \in Jobs \ {k} : status'[i] = status[i]
                           /\ Unsettle(k)
  <2> PICK k \in Jobs : /\ \A i \in Jobs \ {k} : status'[i] = status[i]
                        /\ Unsettle(k)
    BY <1>2
  <2>1. \A j \in Jobs : steady'[j] = steady[j] \ {k} /\ steady[j] \subseteq Jobs
    BY DEF Unsettle, TypeOK
  <2> QED BY <2>1 DEF CheckSound, StoredSound
<1> QED BY <1>1, <1>2

\* Each step of a conflict check keeps it sound.
LEMMA SubmitSound ==
    ASSUME NEW j \in Jobs, ResolveMayFail = FALSE, IndInv, Submit(j)
    PROVE  CheckSound' /\ StoredSound'
<1> USE DEF IndInv
<1>1. CASE SubmitSnapshot(j)
  BY <1>1 DEF TypeOK, SubmitSnapshot, CheckSound, StoredSound
<1>2. ASSUME NEW k \in Jobs, FilterRunning(j, k) PROVE CheckSound' /\ StoredSound'
  <2>1. StoredSound'
    BY <1>2 DEF FilterRunning, StoredSound
  <2>2. ASSUME NEW i \in Jobs, spc[i] = "filter", NEW h \in steady[i]
        PROVE  /\ status'[h] \in ActiveStatus
               /\ \/ h \in unread'[i]
                  \/ h \in active'[i]
                  \/ reading'[i] = h /\ status'[h] = "Pending"
    <3>1. CASE i # j
      BY <1>2, <2>2, <3>1 DEF FilterRunning, CheckSound, TypeOK
    <3>2. CASE i = j /\ h # k
      BY <1>2, <2>2, <3>2, JobsAssumption DEF FilterRunning, CheckSound, TypeOK
    <3>3. CASE i = j /\ h = k
      BY <1>2, <2>2, <3>3 DEF FilterRunning, CheckSound, TypeOK, ActiveStatus
    <3> QED BY <3>1, <3>2, <3>3
  <2>3. CheckSound'
    BY <1>2, <2>2 DEF FilterRunning, CheckSound
  <2> QED BY <2>1, <2>3
<1>3. CASE FilterPending(j)
  BY <1>3 DEF TypeOK, FilterPending, CheckSound, StoredSound
<1>4. ASSUME NEW k \in Jobs, SubmitConflict(j, k) PROVE CheckSound' /\ StoredSound'
  BY <1>4 DEF TypeOK, SubmitConflict, CheckSound, StoredSound
<1>5. CASE SubmitStore(j)
  <2>1. steady[j] \subseteq active[j]
    BY <1>5, JobsAssumption DEF SubmitStore, FilterDone, CheckSound, TypeOK
  <2>2. \A k \in active[j] : ~Conflicting(j, k)
    BY <1>5 DEF SubmitStore, AffectedPackages, checkJobConflict, Conflicting
  <2> QED BY <1>5, <2>1, <2>2 DEF SubmitStore, CheckSound, StoredSound, TypeOK
<1>6. CASE SubmitEnqueue(j)
  BY <1>6 DEF TypeOK, SubmitEnqueue, CheckSound, StoredSound
<1>7. CASE SubmitFull(j)
  BY <1>7 DEF TypeOK, SubmitFull, CheckSound, StoredSound
<1> QED BY <1>1, <1>2, <1>3, <1>4, <1>5, <1>6, <1>7 DEF Submit

\* Every step keeps the invariant, if resolution does not fail.
LEMMA NextIndInv ==
    ASSUME ResolveMayFail = FALSE, IndInv, [Next]_vars
    PROVE  IndInv'
<1> USE DEF IndInv
<1>0. WorkerHasJob'
  BY WorkerHasJobKept
<1>1. ASSUME NEW j \in Jobs, Submit(j) PROVE IndInv'
  BY <1>0, <1>1, SubmitTypes, SubmitSound
<1>2. ASSUME NEW w \in Workers, Worker(w) PROVE IndInv'
  <2>1. TypeOK'
    BY <1>2, OtherTypes
  <2>2. CASE WorkerExit(w) \/ WorkerReceive(w) \/ WorkerSkip(w) \/ WorkerCheck(w)
    BY <1>0, <2>1, <2>2, OtherSound
       DEF WorkerExit, WorkerReceive, WorkerSkip, WorkerCheck, submitVars
  <2>3. CASE WorkerStart(w) \/ \E err \in BOOLEAN : WorkerFinish(w, err)
    <3>1. wjob[w] \in Jobs
      BY <2>3 DEF WorkerStart, WorkerFinish, WorkerHasJob
    <3>2. /\ \A i \in Jobs \ {wjob[w]} : status'[i] = status[i]
          /\ Unsettle(wjob[w])
      BY <2>3, <3>1 DEF WorkerStart, WorkerFinish, TypeOK
    <3> QED BY <1>0, <2>1, <2>3, <3>1, <3>2, OtherSound
               DEF WorkerStart, WorkerFinish, submitVars
  <2> QED BY <1>2, <2>2, <2>3 DEF Worker
<1>3. ASSUME NEW j \in Jobs, Install(j) \/ CancelJob(j) PROVE IndInv'
  <2>1. TypeOK'
    BY <1>3, OtherTypes
  <2> QED BY <1>0, <1>3, <2>1, OtherSound
             DEF Install, InstallEnd, CancelJob, CancelContext, CancelStatus,
                 submitVars, TypeOK
<1>4. CASE StopQueue
  <2>1. TypeOK'
    BY <1>4, OtherTypes
  <2> QED BY <1>0, <1>4, <2>1, OtherSound
             DEF StopQueue, StopBegin, StopEnd, StopTimeout, submitVars
<1>5. CASE UNCHANGED vars
  <2>1. TypeOK'
    BY <1>5, OtherTypes
  <2> QED BY <1>0, <1>5, <2>1, OtherSound DEF vars, submitVars
<1> QED BY <1>1, <1>2, <1>3, <1>4, <1>5 DEF Next, Idle

\* A job that conflicts with one that stayed active throughout its conflict
\* check is refused, for any jobs, workers and packages, as long as the
\* detector's resolution does not fail (conflict_detector.go).
THEOREM ConflictsRefused ==
    ASSUME ResolveMayFail = FALSE
    PROVE  Spec => []SteadyConflictRefused
<1>1. Init => IndInv
  BY InitIndInv
<1>2. IndInv /\ [Next]_vars => IndInv'
  BY NextIndInv
<1>3. IndInv => SteadyConflictRefused
  BY DEF IndInv, StoredSound, SteadyConflictRefused, TypeOK
<1> QED BY <1>1, <1>2, <1>3, PTL DEF Spec

\* The queue's variables always have their types and the channel never holds
\* more than QueueSize jobs, whether resolution fails or not.
THEOREM TypeCorrect == Spec => [](TypeOK /\ WorkerHasJob)
<1>1. Init => TypeOK /\ WorkerHasJob
  BY InitIndInv DEF IndInv
<1>2. TypeOK /\ WorkerHasJob /\ [Next]_vars => (TypeOK /\ WorkerHasJob)'
  <2> SUFFICES ASSUME TypeOK, WorkerHasJob, [Next]_vars
               PROVE  TypeOK' /\ WorkerHasJob'
    OBVIOUS
  <2>1. WorkerHasJob'
    BY WorkerHasJobKept
  <2>2. ASSUME NEW j \in Jobs, Submit(j) PROVE TypeOK'
    BY <2>2, SubmitTypes
  <2>3. CASE ~\E j \in Jobs : Submit(j)
    <3>1. CASE \E w \in Workers : Worker(w)
      BY <2>1, <3>1, OtherTypes
    <3>2. CASE \E j \in Jobs : Install(j) \/ CancelJob(j)
      BY <2>1, <3>2, OtherTypes
    <3>3. CASE StopQueue
      BY <2>1, <3>3, OtherTypes
    <3>4. CASE UNCHANGED vars
      BY <2>1, <3>4, OtherTypes
    <3> QED BY <2>3, <3>1, <3>2, <3>3, <3>4 DEF Next, Idle
  <2> QED BY <2>1, <2>2, <2>3
<1> QED BY <1>1, <1>2, PTL DEF Spec

\* One step never undoes a cancellation, unless it is that of a worker which
\* had checked the status before the job was cancelled (job.go:243-251).
LEMMA CancelledStep ==
    ASSUME TypeOK, [Next]_vars, NEW j \in Jobs,
           status[j] = "Cancelled", status'[j] # "Cancelled"
    PROVE  \E w \in Workers : wjob[w] = j /\ wpc[w] = "starting"
<1>1. ASSUME NEW i \in Jobs, Submit(i) PROVE FALSE
  BY <1>1 DEF Submit, SubmitSnapshot, FilterRunning, FilterPending,
              SubmitConflict, SubmitStore, SubmitEnqueue, SubmitFull
<1>2. ASSUME NEW i \in Jobs, Install(i) \/ CancelJob(i) PROVE FALSE
  BY <1>2 DEF Install, InstallEnd, CancelJob, CancelContext, CancelStatus, TypeOK
<1>3. ASSUME NEW w \in Workers, Worker(w), ~WorkerStart(w) PROVE FALSE
  BY <1>3 DEF Worker, WorkerExit, WorkerReceive, WorkerSkip, WorkerCheck,
              WorkerFinish, TypeOK
<1>4. ASSUME NEW w \in Workers, WorkerStart(w)
      PROVE  wjob[w] = j /\ wpc[w] = "starting"
  BY <1>4 DEF WorkerStart, TypeOK
<1>5. CASE StopQueue
  BY <1>5 DEF StopQueue, StopBegin, StopEnd, StopTimeout
<1>6. CASE UNCHANGED vars
  BY <1>6 DEF vars
<1> QED BY <1>1, <1>2, <1>3, <1>4, <1>5, <1>6 DEF Next, Idle

\* A cancelled job stays cancelled for any number of jobs and workers, but for
\* the one race that CancelledStep names.
THEOREM CancellationStays == Spec => CancelUndoneOnlyByStartingWorker
<1>1. TypeOK /\ [Next]_vars =>
        [\A j \in Jobs :
            (status[j] = "Cancelled" /\ status'[j] # "Cancelled") =>
                \E w \in Workers : wjob[w] = j /\ wpc[w] = "starting"]_vars
  BY CancelledStep
<1> QED BY <1>1, TypeCorrect, PTL DEF Spec, CancelUndoneOnlyByStartingWorker

\* A worker that has a job in its hands.
Busy(w) == wpc[w] \in {"received", "starting", "running"}

\* A job is in one place, the channel or one worker's hands, and got there by
\* being accepted; an accepted job that is in none has ended.
OwnerInv ==
    /\ TypeOK /\ WorkerHasJob
    /\ \A w \in Workers : ~Busy(w) => wjob[w] = NoJob
    /\ \A a, b \in 1..Len(queue) : queue[a] = queue[b] => a = b
    /\ \A a \in 1..Len(queue) : spc[queue[a]] = "accepted"
    /\ \A w \in Workers : Busy(w) => spc[wjob[w]] = "accepted"
    /\ \A v, w \in Workers : Busy(v) /\ Busy(w) /\ wjob[v] = wjob[w] => v = w
    /\ \A w \in Workers : Busy(w) => \A a \in 1..Len(queue) : wjob[w] # queue[a]
    /\ \A j \in Jobs : spc[j] = "accepted" /\ status[j] \in ActiveStatus =>
          \/ \E a \in 1..Len(queue) : queue[a] = j
          \/ \E w \in Workers : Busy(w) /\ wjob[w] = j

\* What is left of the channel after a receive.
LEMMA QueueTail ==
    ASSUME queue \in Seq(Jobs), queue # <<>>
    PROVE  /\ Head(queue) = queue[1] /\ Head(queue) \in Jobs /\ 1 \in 1..Len(queue)
           /\ Len(queue) \in Nat
           /\ \A a \in 1..Len(Tail(queue)) : a + 1 \in 1..Len(queue) /\ a # 0 /\ Tail(queue)[a] = queue[a + 1]
           /\ \A a \in 1..Len(queue) : a # 1 => a - 1 \in 1..Len(Tail(queue)) /\ Tail(queue)[a - 1] = queue[a]
OBVIOUS

\* Submit, CancelJob and Stop leave channel and workers alone, but for the send.
LEMMA OwnerSame ==
    ASSUME OwnerInv, TypeOK', WorkerHasJob', UNCHANGED <<queue, wpc, wjob>>,
           \A j \in Jobs : spc'[j] = "accepted" <=> spc[j] = "accepted",
           \A j \in Jobs : status'[j] \in ActiveStatus => status[j] \in ActiveStatus
    PROVE  OwnerInv'
<1>1. \A a \in 1..Len(queue) : queue[a] \in Jobs
  BY DEF OwnerInv, TypeOK
<1>2. \A w \in Workers : Busy(w) => wjob[w] \in Jobs
  BY DEF OwnerInv, WorkerHasJob, Busy
<1>3. \A w \in Workers : Busy(w)' <=> Busy(w)
  BY DEF Busy
<1> QED BY <1>1, <1>2, <1>3 DEF OwnerInv

\* A job sent to the channel was in no place before.
LEMMA OwnerEnqueue ==
    ASSUME OwnerInv, TypeOK', WorkerHasJob', NEW j \in Jobs, SubmitEnqueue(j)
    PROVE  OwnerInv'
<1>1. /\ queue \in Seq(Jobs) /\ queue' = Append(queue, j) /\ Len(queue) \in Nat /\ spc[j] = "stored"
      /\ \A i \in Jobs : spc'[i] = "accepted" <=> spc[i] = "accepted" \/ i = j
      /\ wpc' = wpc /\ wjob' = wjob /\ status' = status
  BY DEF OwnerInv, TypeOK, SubmitEnqueue, workerVars
<1>2. /\ Len(queue') = Len(queue) + 1 /\ queue'[Len(queue) + 1] = j
      /\ \A a \in 1..Len(queue) : queue'[a] = queue[a] /\ queue[a] \in Jobs
      /\ \A a \in 1..Len(queue') : a \in 1..Len(queue) \/ a = Len(queue) + 1
      /\ 1..Len(queue) \subseteq 1..Len(queue') /\ Len(queue) + 1 \in 1..Len(queue')
  BY <1>1
<1>3. \A w \in Workers : (Busy(w)' <=> Busy(w)) /\ (Busy(w) => wjob[w] \in Jobs)
  BY <1>1 DEF Busy, OwnerInv, WorkerHasJob
<1>4. \A a \in 1..Len(queue) : queue[a] # j
  BY <1>1 DEF OwnerInv
<1>5. \A w \in Workers : Busy(w) => wjob[w] # j
  BY <1>1 DEF OwnerInv
<1>6. /\ \A w \in Workers : ~Busy(w)' => wjob'[w] = NoJob
      /\ \A w \in Workers : Busy(w)' => spc'[wjob'[w]] = "accepted"
      /\ \A v, w \in Workers : Busy(v)' /\ Busy(w)' /\ wjob'[v] = wjob'[w] => v = w
  BY <1>1, <1>3 DEF OwnerInv
<1>7. \A a, b \in 1..Len(queue') : queue'[a] = queue'[b] => a = b
  BY <1>2, <1>4 DEF OwnerInv
<1>8. \A a \in 1..Len(queue') : spc'[queue'[a]] = "accepted"
  BY <1>1, <1>2 DEF OwnerInv
<1>9. \A w \in Workers : Busy(w)' => \A a \in 1..Len(queue') : wjob'[w] # queue'[a]
  BY <1>1, <1>2, <1>3, <1>5 DEF OwnerInv
<1>10. ASSUME NEW i \in Jobs, spc'[i] = "accepted", status'[i] \in ActiveStatus
       PROVE  \/ \E a \in 1..Len(queue') : queue'[a] = i
              \/ \E w \in Workers : Busy(w)' /\ wjob'[w] = i
  BY <1>1, <1>2, <1>3, <1>10 DEF OwnerInv
<1> QED BY <1>6, <1>7, <1>8, <1>9, <1>10 DEF OwnerInv

\* A worker takes the first job of the channel.
LEMMA OwnerReceive ==
    ASSUME OwnerInv, TypeOK', WorkerHasJob', NEW u \in Workers, WorkerReceive(u)
    PROVE  OwnerInv'
<1> DEFINE h == Head(queue)
<1>1. /\ queue \in Seq(Jobs) /\ queue # <<>> /\ queue' = Tail(queue) /\ spc' = spc /\ status' = status
      /\ wjob' = [wjob EXCEPT ![u] = h] /\ wpc' = [wpc EXCEPT ![u] = "received"] /\ wpc[u] = "select"
      /\ DOMAIN wjob = Workers /\ DOMAIN wpc = Workers
  BY DEF OwnerInv, TypeOK, WorkerReceive, submitVars
<1>2. /\ h = queue[1] /\ h \in Jobs /\ 1 \in 1..Len(queue) /\ Len(queue) \in Nat
      /\ \A a \in 1..Len(queue') : a + 1 \in 1..Len(queue) /\ a # 0 /\ queue'[a] = queue[a + 1]
      /\ \A a \in 1..Len(queue) : a # 1 => a - 1 \in 1..Len(queue') /\ queue'[a - 1] = queue[a]
  BY <1>1, QueueTail
<1> HIDE DEF h
<1>3. /\ wjob'[u] = h /\ Busy(u)' /\ ~Busy(u)
      /\ \A w \in Workers \ {u} : wjob'[w] = wjob[w] /\ (Busy(w)' <=> Busy(w))
  BY <1>1 DEF Busy
<1>4. \A a, b \in 1..Len(queue') : queue'[a] = queue'[b] => a = b
  BY <1>2 DEF OwnerInv
<1>5. \A a \in 1..Len(queue') : spc'[queue'[a]] = "accepted" /\ queue'[a] # h
  BY <1>1, <1>2 DEF OwnerInv
<1>6. /\ \A w \in Workers : ~Busy(w)' => wjob'[w] = NoJob
      /\ \A w \in Workers : Busy(w)' => spc'[wjob'[w]] = "accepted"
  BY <1>1, <1>2, <1>3 DEF OwnerInv
<1>7. \A w \in Workers \ {u} : Busy(w) => wjob[w] # h
  BY <1>2 DEF OwnerInv
<1>8. \A v, w \in Workers : Busy(v)' /\ Busy(w)' /\ wjob'[v] = wjob'[w] => v = w
  BY <1>3, <1>7 DEF OwnerInv
<1>9. \A w \in Workers : Busy(w)' => \A a \in 1..Len(queue') : wjob'[w] # queue'[a]
  BY <1>2, <1>3, <1>5 DEF OwnerInv
<1>10. ASSUME NEW i \in Jobs, spc'[i] = "accepted", status'[i] \in ActiveStatus
       PROVE  \/ \E a \in 1..Len(queue') : queue'[a] = i
              \/ \E w \in Workers : Busy(w)' /\ wjob'[w] = i
  <2>1. CASE \E a \in 1..Len(queue) : queue[a] = i
    BY <1>2, <1>3, <2>1
  <2>2. CASE \E w \in Workers : Busy(w) /\ wjob[w] = i
    BY <1>3, <2>2
  <2> QED BY <1>1, <1>10, <2>1, <2>2 DEF OwnerInv
<1> QED BY <1>4, <1>5, <1>6, <1>8, <1>9, <1>10 DEF OwnerInv

\* A worker lets its job go only when the job has ended.
LEMMA OwnerRelease ==
    ASSUME OwnerInv, TypeOK', WorkerHasJob', NEW u \in Workers, Busy(u),
           UNCHANGED <<queue, spc>>, \A i \in Jobs \ {wjob[u]} : status'[i] = status[i],
           \/ wpc' = [wpc EXCEPT ![u] = "select"] /\ wjob' = [wjob EXCEPT ![u] = NoJob] /\ status'[wjob[u]] \in Terminal
           \/ wpc' = [wpc EXCEPT ![u] = "starting"] /\ wjob' = wjob
           \/ wpc' = [wpc EXCEPT ![u] = "running"] /\ wjob' = wjob
    PROVE  OwnerInv'
<1>1. /\ DOMAIN wjob = Workers /\ DOMAIN wpc = Workers /\ wjob[u] \in Jobs
      /\ \A a \in 1..Len(queue) : queue[a] \in Jobs
  BY DEF OwnerInv, TypeOK, WorkerHasJob, Busy
<1>2. \A w \in Workers \ {u} : wjob'[w] = wjob[w] /\ (Busy(w)' <=> Busy(w))
  BY <1>1 DEF Busy
<1>3. \/ ~Busy(u)' /\ wjob'[u] = NoJob /\ status'[wjob[u]] \in Terminal
      \/ Busy(u)' /\ wjob'[u] = wjob[u]
  BY <1>1 DEF Busy
<1>4. /\ \A w \in Workers : ~Busy(w)' => wjob'[w] = NoJob
      /\ \A w \in Workers : Busy(w)' => Busy(w) /\ wjob'[w] = wjob[w]
  BY <1>2, <1>3 DEF OwnerInv
<1>5. ASSUME NEW i \in Jobs, spc'[i] = "accepted", status'[i] \in ActiveStatus
      PROVE  \/ \E a \in 1..Len(queue') : queue'[a] = i
             \/ \E w \in Workers : Busy(w)' /\ wjob'[w] = i
  <2>1. CASE i = wjob[u]
    BY <1>3, <1>5, <2>1 DEF ActiveStatus, Terminal
  <2>2. CASE i # wjob[u]
    <3>1. \/ \E a \in 1..Len(queue) : queue[a] = i
          \/ \E w \in Workers : Busy(w) /\ wjob[w] = i
      BY <1>5, <2>2 DEF OwnerInv
    <3> QED BY <1>2, <2>2, <3>1
  <2> QED BY <2>1, <2>2
<1> QED BY <1>4, <1>5 DEF OwnerInv

\* Every step keeps the invariant of the places, whether resolution fails or not.
LEMMA NextOwnerInv ==
    ASSUME OwnerInv, TypeOK', WorkerHasJob', [Next]_vars
    PROVE  OwnerInv'
<1>1. ASSUME NEW j \in Jobs, SubmitEnqueue(j) PROVE OwnerInv'
  BY <1>1, OwnerEnqueue
<1>2. ASSUME NEW j \in Jobs, Submit(j), ~SubmitEnqueue(j) PROVE OwnerInv'
  <2>1. /\ UNCHANGED <<queue, wpc, wjob>> /\ status' = status
        /\ \A i \in Jobs : spc'[i] = "accepted" <=> spc[i] = "accepted"
    BY <1>2 DEF OwnerInv, TypeOK, Submit, SubmitSnapshot, FilterRunning, FilterPending, FilterDone,
                SubmitConflict, SubmitStore, SubmitFull, workerVars
  <2> QED BY <2>1, OwnerSame
<1>3. ASSUME NEW j \in Jobs, Install(j) \/ CancelJob(j) PROVE OwnerInv'
  <2>1. /\ UNCHANGED <<queue, wpc, wjob, spc>>
        /\ \A i \in Jobs : status'[i] \in ActiveStatus => status[i] \in ActiveStatus
    BY <1>3 DEF OwnerInv, TypeOK, Install, InstallEnd, CancelJob, CancelContext, CancelStatus,
                workerVars, submitVars, ActiveStatus
  <2> QED BY <2>1, OwnerSame
<1>4. ASSUME StopQueue \/ UNCHANGED vars PROVE OwnerInv'
  <2>1. UNCHANGED <<queue, wpc, wjob, spc, status>>
    BY <1>4 DEF StopQueue, StopBegin, StopEnd, StopTimeout, vars, workerVars, submitVars
  <2> QED BY <2>1, OwnerSame
<1>5. ASSUME NEW w \in Workers, WorkerReceive(w) PROVE OwnerInv'
  BY <1>5, OwnerReceive
<1>6. ASSUME NEW w \in Workers, WorkerSkip(w) \/ WorkerCheck(w) PROVE OwnerInv'
  <2>1. Busy(w) /\ UNCHANGED <<queue, spc, status>>
    BY <1>6 DEF Busy, WorkerSkip, WorkerCheck, submitVars
  <2> QED BY <1>6, <2>1, OwnerRelease DEF WorkerSkip, WorkerCheck, Terminal
<1>7. ASSUME NEW w \in Workers, WorkerStart(w) PROVE OwnerInv'
  <2>1. Busy(w) /\ UNCHANGED <<queue, spc, wjob>> /\ \A i \in Jobs \ {wjob[w]} : status'[i] = status[i]
    BY <1>7 DEF Busy, WorkerStart, submitVars, OwnerInv, TypeOK
  <2> QED BY <1>7, <2>1, OwnerRelease DEF WorkerStart
<1>8. ASSUME NEW w \in Workers, NEW err \in BOOLEAN, WorkerFinish(w, err) PROVE OwnerInv'
  <2>1. Busy(w) /\ UNCHANGED <<queue, spc>> /\ wjob[w] \in Jobs
    BY <1>8 DEF Busy, WorkerFinish, submitVars, OwnerInv, WorkerHasJob
  <2>2. /\ \A i \in Jobs \ {wjob[w]} : status'[i] = status[i]
        /\ status'[wjob[w]] \in Terminal
    BY <1>8, <2>1 DEF WorkerFinish, OwnerInv, TypeOK, Terminal
  <2> QED BY <1>8, <2>1, <2>2, OwnerRelease DEF WorkerFinish
<1>9. ASSUME NEW w \in Workers, WorkerExit(w) PROVE OwnerInv'
  <2>1. /\ UNCHANGED <<queue, spc, status, wjob>> /\ DOMAIN wpc = Workers
        /\ \A v \in Workers : Busy(v)' <=> Busy(v)
    BY <1>9 DEF WorkerExit, submitVars, Busy, OwnerInv, TypeOK
  <2> QED BY <2>1 DEF OwnerInv
<1> QED BY <1>1, <1>2, <1>3, <1>4, <1>5, <1>6, <1>7, <1>8, <1>9 DEF Next, Worker, Idle

\* The invariant of the places holds in every state, whatever the constants.
LEMMA OwnerAlways == Spec => []OwnerInv
<1>1. Init => OwnerInv
  <2> SUFFICES ASSUME Init PROVE OwnerInv
    OBVIOUS
  <2>1. TypeOK /\ WorkerHasJob
    BY InitIndInv DEF IndInv
  <2>2. \A w \in Workers : ~Busy(w) /\ wjob[w] = NoJob
    BY DEF Init, Busy
  <2>3. queue = <<>> /\ Len(queue) = 0 /\ \A j \in Jobs : spc[j] = "new"
    BY DEF Init
  <2> QED BY <2>1, <2>2, <2>3 DEF OwnerInv
<1>2. TypeOK /\ WorkerHasJob /\ (TypeOK /\ WorkerHasJob)' /\ OwnerInv /\ [Next]_vars => OwnerInv'
  BY NextOwnerInv
<1> QED BY <1>1, <1>2, TypeCorrect, PTL DEF Spec

\* Every accepted job that is Pending or Running waits in the channel or is with
\* exactly one worker, for any number of jobs and workers, any queue size, and
\* cancellations, failures and a stop at any point: no job that still counts for
\* the conflict detector is left behind (the safety part of EveryoneEnds).
THEOREM NoJobLeftBehind == Spec => []AcceptedHasOwner
<1>1. OwnerInv => AcceptedHasOwner
  <2> SUFFICES ASSUME OwnerInv, NEW j \in Jobs, spc[j] = "accepted", status[j] \in ActiveStatus
               PROVE  \/ j \in Members(queue) /\ \A w \in Workers : ~Holds(w, j)
                      \/ /\ j \notin Members(queue)
                         /\ \E w \in Workers : /\ Holds(w, j)
                                               /\ \A v \in Workers : Holds(v, j) => v = w
    BY DEF AcceptedHasOwner
  <2>1. \A w \in Workers : Holds(w, j) <=> Busy(w) /\ wjob[w] = j
    BY JobsAssumption DEF OwnerInv, Holds, Busy
  <2>2. j \in Members(queue) <=> \E a \in 1..Len(queue) : queue[a] = j
    BY DEF Members
  <2> QED BY <2>1, <2>2 DEF OwnerInv
<1> QED BY <1>1, OwnerAlways, PTL

\* A job whose status is Cancelled, or about to be, is one whose context is done.
AskedInv ==
    \A j \in Jobs : status[j] = "Cancelled" \/ cpc[j] = "canceling" => j \in ctxDone

\* Only CancelJob, and a job whose context is done, write that status.
LEMMA NextAskedInv ==
    ASSUME OwnerInv, AskedInv, [Next]_vars
    PROVE  AskedInv'
<1>0. TypeOK /\ WorkerHasJob
  BY DEF OwnerInv
<1>1. ASSUME UNCHANGED <<status, cpc, ctxDone>> PROVE AskedInv'
  BY <1>1 DEF AskedInv
<1>2. ASSUME NEW j \in Jobs, Submit(j) \/ Install(j) PROVE AskedInv'
  BY <1>1, <1>2 DEF Submit, SubmitSnapshot, FilterRunning, FilterPending, SubmitConflict, SubmitStore,
                    SubmitEnqueue, SubmitFull, Install, InstallEnd
<1>3. ASSUME NEW j \in Jobs, CancelJob(j) PROVE AskedInv'
  BY <1>0, <1>3 DEF CancelJob, CancelContext, CancelStatus, AskedInv, TypeOK
<1>4. ASSUME NEW w \in Workers, WorkerExit(w) \/ WorkerReceive(w) \/ WorkerSkip(w) \/ WorkerCheck(w)
      PROVE  AskedInv'
  BY <1>1, <1>4 DEF WorkerExit, WorkerReceive, WorkerSkip, WorkerCheck
<1>5. ASSUME NEW w \in Workers, WorkerStart(w) \/ \E err \in BOOLEAN : WorkerFinish(w, err)
      PROVE  AskedInv'
  BY <1>0, <1>5 DEF WorkerStart, WorkerFinish, AskedInv, TypeOK, WorkerHasJob
<1>6. ASSUME StopQueue \/ UNCHANGED vars PROVE AskedInv'
  BY <1>1, <1>6 DEF StopQueue, StopBegin, StopEnd, StopTimeout, vars
<1> QED BY <1>2, <1>3, <1>4, <1>5, <1>6 DEF Next, Worker, Idle

\* A job that waits or that a worker has.
Placed(j) == (\E a \in 1..Len(queue) : queue[a] = j) \/ \E w \in Workers : wjob[w] = j

\* The outcome of a job, and the places, in the words of the queue.
LEMMA OutcomeOf ==
    /\ \A j \in Jobs : OutcomeBar[j] = IF spc[j] = "accepted" /\ ~Placed(j) THEN status[j] ELSE "none"
    /\ DOMAIN OutcomeBar = Jobs
    /\ \A j : Placed(j) <=> Service!Waits(j) \/ Service!Served(j)
BY DEF OutcomeBar, Placed, Members, Service!Waits, Service!Served

\* The outcomes are those of before, but for the jobs of the set S.
LEMMA OutcomesKept ==
    ASSUME NEW S \in SUBSET Jobs,
           \A j \in Jobs \ S : /\ spc'[j] = "accepted" <=> spc[j] = "accepted"
                               /\ Placed(j)' <=> Placed(j)
                               /\ ~Placed(j) => status'[j] = status[j]
    PROVE  \A j \in Jobs \ S : OutcomeBar'[j] = OutcomeBar[j]
<1>1. \A j \in Jobs : OutcomeBar'[j] = IF spc'[j] = "accepted" /\ ~Placed(j)' THEN status'[j] ELSE "none"
  BY DEF OutcomeBar, Placed, Members
<1> QED BY <1>1, OutcomeOf

\* Two tables of outcomes with equal entries are equal.
LEMMA OutcomesEqual ==
    ASSUME \A j \in Jobs : OutcomeBar'[j] = OutcomeBar[j]
    PROVE  OutcomeBar' = OutcomeBar
<1>1. /\ OutcomeBar' = [j \in Jobs |-> OutcomeBar'[j]]
      /\ OutcomeBar = [j \in Jobs |-> OutcomeBar[j]]
  BY DEF OutcomeBar
<1> QED BY <1>1

\* A step that moves no job and asks for no cancellation, and writes the status of
\* none but a job that is placed, is invisible.
LEMMA ServiceStutter ==
    ASSUME UNCHANGED <<queue, wjob, ctxDone>>,
           \A j \in Jobs : spc'[j] = "accepted" <=> spc[j] = "accepted",
           \A j \in Jobs : ~Placed(j) => status'[j] = status[j]
    PROVE  UNCHANGED Service!vars
<1>1. \A j \in Jobs : Placed(j)' <=> Placed(j)
  BY DEF Placed
<1>2. \A j \in Jobs : OutcomeBar'[j] = OutcomeBar[j]
  BY <1>1, OutcomesKept
<1> QED BY <1>2, OutcomesEqual DEF Service!vars

\* The send of Submit is the acceptance.
LEMMA ServiceAccept ==
    ASSUME OwnerInv, NEW j \in Jobs, SubmitEnqueue(j)
    PROVE  Service!Accept(j)
<1>1. /\ queue \in Seq(Jobs) /\ queue' = Append(queue, j) /\ Len(queue) \in Nat /\ Len(queue) < QueueSize
      /\ spc[j] = "stored" /\ \A i \in Jobs \ {j} : spc'[i] = spc[i]
      /\ wjob' = wjob /\ status' = status /\ ctxDone' = ctxDone
  BY DEF OwnerInv, TypeOK, SubmitEnqueue, workerVars
<1>2. /\ \A a \in 1..Len(queue) : a \in 1..Len(queue') /\ queue'[a] = queue[a]
      /\ \A a \in 1..Len(queue') : a \in 1..Len(queue) \/ queue'[a] = j
      /\ Len(queue') \in 1..Len(queue') /\ queue'[Len(queue')] = j
  BY <1>1
<1>3. ~Placed(j) /\ Placed(j)'
  BY <1>1, <1>2, JobsAssumption DEF OwnerInv, Placed
<1>4. \A i \in Jobs \ {j} : Placed(i)' <=> Placed(i)
  BY <1>1, <1>2 DEF Placed
<1>5. \A i \in Jobs \ {j} : OutcomeBar'[i] = OutcomeBar[i]
  BY <1>1, <1>4, OutcomesKept
<1>6. OutcomeBar[j] = "none" /\ OutcomeBar'[j] = "none"
  <2>1. OutcomeBar'[j] = IF spc'[j] = "accepted" /\ ~Placed(j)' THEN status'[j] ELSE "none"
    BY DEF OutcomeBar, Placed, Members
  <2> QED BY <1>1, <1>3, <2>1, OutcomeOf
<1>7. OutcomeBar' = OutcomeBar
  BY <1>5, <1>6, OutcomesEqual
<1>8. ~Service!Waits(j) /\ ~Service!Served(j)
  BY <1>3, OutcomeOf
<1> QED BY <1>1, <1>6, <1>7, <1>8 DEF Service!Accept

\* A receive serves the job that has waited longest.
LEMMA ServiceServe ==
    ASSUME OwnerInv, NEW u \in Workers, WorkerReceive(u)
    PROVE  Service!Serve(u)
<1>1. /\ queue \in Seq(Jobs) /\ queue # <<>> /\ queue' = Tail(queue)
      /\ wjob' = [wjob EXCEPT ![u] = Head(queue)] /\ wjob[u] = NoJob /\ DOMAIN wjob = Workers
      /\ UNCHANGED <<spc, status, ctxDone>>
  BY DEF OwnerInv, TypeOK, WorkerReceive, submitVars, Busy
<1>2. /\ Head(queue) = queue[1] /\ 1 \in 1..Len(queue)
      /\ \A a \in 1..Len(queue') : a + 1 \in 1..Len(queue) /\ queue'[a] = queue[a + 1]
      /\ \A a \in 1..Len(queue) : a # 1 => a - 1 \in 1..Len(queue') /\ queue'[a - 1] = queue[a]
  BY <1>1, QueueTail
<1>3. wjob'[u] = queue[1] /\ \A w \in Workers \ {u} : wjob'[w] = wjob[w]
  BY <1>1, <1>2
<1>4. \A j \in Jobs : Placed(j)' <=> Placed(j)
  <2> TAKE j \in Jobs
  <2>1. ASSUME Placed(j) PROVE Placed(j)'
    <3>1. CASE \E a \in 1..Len(queue) : queue[a] = j
      BY <1>2, <1>3, <3>1 DEF Placed
    <3>2. CASE \E w \in Workers : wjob[w] = j
      BY <1>1, <1>3, <3>2, JobsAssumption DEF Placed
    <3> QED BY <2>1, <3>1, <3>2 DEF Placed
  <2>2. ASSUME Placed(j)' PROVE Placed(j)
    <3>1. CASE \E a \in 1..Len(queue') : queue'[a] = j
      BY <1>2, <3>1 DEF Placed
    <3>2. CASE \E w \in Workers : wjob'[w] = j
      BY <1>2, <1>3, <3>2 DEF Placed
    <3> QED BY <2>2, <3>1, <3>2 DEF Placed
  <2> QED BY <2>1, <2>2
<1>5. \A j \in Jobs : OutcomeBar'[j] = OutcomeBar[j]
  BY <1>1, <1>4, OutcomesKept
<1>6. OutcomeBar' = OutcomeBar
  BY <1>5, OutcomesEqual
<1> QED BY <1>1, <1>6 DEF Service!Serve

\* A worker that lets its job go ends it with the status of then.
LEMMA ServiceEnd ==
    ASSUME OwnerInv, NEW u \in Workers, Busy(u), UNCHANGED <<queue, spc, ctxDone>>,
           wjob' = [wjob EXCEPT ![u] = NoJob],
           \A i \in Jobs \ {wjob[u]} : status'[i] = status[i],
           status'[wjob[u]] = "Cancelled" => wjob[u] \in ctxDone
    PROVE  Service!End(u, status'[wjob[u]])
<1>0. PICK j \in Jobs : j = wjob[u]
  BY DEF OwnerInv, WorkerHasJob, Busy
<1>1. j # NoJob /\ DOMAIN wjob = Workers /\ spc[j] = "accepted"
  BY <1>0, JobsAssumption DEF OwnerInv, TypeOK, Busy
<1>2. wjob'[u] = NoJob /\ \A w \in Workers \ {u} : wjob'[w] = wjob[w] /\ wjob[w] # j
  BY <1>0, <1>1 DEF OwnerInv
<1>3. ~Placed(j)'
  BY <1>0, <1>1, <1>2 DEF OwnerInv, Placed
<1>4. \A i \in Jobs \ {j} : Placed(i)' <=> Placed(i)
  BY <1>0, <1>1, <1>2, JobsAssumption DEF Placed
<1>5. \A i \in Jobs \ {j} : OutcomeBar'[i] = OutcomeBar[i]
  BY <1>0, <1>4, OutcomesKept
<1>6. OutcomeBar'[j] = status'[j]
  <2>1. OutcomeBar'[j] = IF spc'[j] = "accepted" /\ ~Placed(j)' THEN status'[j] ELSE "none"
    BY DEF OutcomeBar, Placed, Members
  <2> QED BY <1>1, <1>3, <2>1
<1>7. /\ OutcomeBar' = [i \in Jobs |-> OutcomeBar'[i]]
      /\ OutcomeBar = [i \in Jobs |-> OutcomeBar[i]]
  BY DEF OutcomeBar
<1>8. OutcomeBar' = [OutcomeBar EXCEPT ![j] = status'[j]]
  BY <1>1, <1>5, <1>6, <1>7
<1> QED BY <1>0, <1>1, <1>8 DEF Service!End

\* A cancellation is seen when it is asked for, and when it finds a job that has ended.
LEMMA ServiceCancel ==
    ASSUME OwnerInv, AskedInv, NEW j \in Jobs, CancelJob(j)
    PROVE  [Service!Next]_(Service!vars)
<1>0. TypeOK
  BY DEF OwnerInv
<1>1. ASSUME CancelContext(j) PROVE Service!AskToCancel(j)
  <2>1. /\ UNCHANGED <<queue, wjob, spc, status>> /\ ctxDone' = ctxDone \union {j}
    BY <1>1 DEF CancelContext, workerVars, submitVars
  <2>2. \A i \in Jobs : OutcomeBar'[i] = OutcomeBar[i]
    BY <2>1, OutcomesKept DEF Placed
  <2> QED BY <2>1, <2>2, OutcomesEqual DEF Service!AskToCancel
<1>2. ASSUME CancelStatus(j) PROVE Service!CancelLate(j) \/ UNCHANGED Service!vars
  <2>1. /\ UNCHANGED <<queue, wjob, spc, ctxDone>> /\ j \in ctxDone
        /\ \A i \in Jobs \ {j} : status'[i] = status[i]
        /\ status[j] # "none" /\ status'[j] = "Cancelled"
    BY <1>0, <1>2 DEF CancelStatus, workerVars, submitVars, AskedInv, TypeOK, ActiveStatus, Terminal
  <2>2. CASE spc[j] = "accepted" /\ ~Placed(j)
    <3>1. \A i \in Jobs \ {j} : OutcomeBar'[i] = OutcomeBar[i]
      BY <2>1, OutcomesKept DEF Placed
    <3>2. OutcomeBar[j] # "none" /\ OutcomeBar'[j] = "Cancelled"
      <4>1. OutcomeBar'[j] = IF spc'[j] = "accepted" /\ ~Placed(j)' THEN status'[j] ELSE "none"
        BY DEF OutcomeBar, Placed, Members
      <4>2. Placed(j)' <=> Placed(j)
        BY <2>1 DEF Placed
      <4> QED BY <2>1, <2>2, <4>1, <4>2, OutcomeOf
    <3>3. /\ OutcomeBar' = [i \in Jobs |-> OutcomeBar'[i]]
          /\ OutcomeBar = [i \in Jobs |-> OutcomeBar[i]]
      BY DEF OutcomeBar
    <3>4. OutcomeBar' = [OutcomeBar EXCEPT ![j] = "Cancelled"]
      BY <3>1, <3>2, <3>3
    <3> QED BY <2>1, <3>2, <3>4 DEF Service!CancelLate
  <2>3. CASE ~(spc[j] = "accepted" /\ ~Placed(j))
    <3>1. \A i \in Jobs : OutcomeBar'[i] = OutcomeBar[i]
      <4>1. \A i \in Jobs : OutcomeBar'[i] = IF spc'[i] = "accepted" /\ ~Placed(i)' THEN status'[i] ELSE "none"
        BY DEF OutcomeBar, Placed, Members
      <4>2. \A i \in Jobs : Placed(i)' <=> Placed(i)
        BY <2>1 DEF Placed
      <4> QED BY <2>1, <2>3, <4>1, <4>2, OutcomeOf
    <3> QED BY <2>1, <3>1, OutcomesEqual DEF Service!vars
  <2> QED BY <2>2, <2>3
<1> QED BY <1>1, <1>2 DEF CancelJob, Service!Next

\* Every step of a worker is a step of the service or invisible.
LEMMA ServiceWorker ==
    ASSUME OwnerInv, AskedInv, NEW w \in Workers, Worker(w)
    PROVE  [Service!Next]_(Service!vars)
<1>0. TypeOK /\ WorkerHasJob
  BY DEF OwnerInv
<1>1. ASSUME WorkerExit(w) \/ WorkerCheck(w) PROVE UNCHANGED Service!vars
  <2>1. UNCHANGED <<queue, wjob, ctxDone, spc, status>>
    BY <1>1 DEF WorkerExit, WorkerCheck, submitVars
  <2> QED BY <2>1, ServiceStutter
<1>2. ASSUME WorkerReceive(w) PROVE Service!Serve(w)
  BY <1>2, ServiceServe
<1>3. ASSUME WorkerSkip(w) PROVE Service!End(w, "Cancelled")
  <2>1. /\ Busy(w) /\ UNCHANGED <<queue, spc, ctxDone, status>> /\ wjob[w] \in Jobs
        /\ wjob' = [wjob EXCEPT ![w] = NoJob] /\ status[wjob[w]] = "Cancelled"
    BY <1>0, <1>3 DEF WorkerSkip, submitVars, Busy, WorkerHasJob
  <2>2. wjob[w] \in ctxDone
    BY <2>1 DEF AskedInv
  <2> QED BY <2>1, <2>2, ServiceEnd
<1>4. ASSUME WorkerStart(w) PROVE UNCHANGED Service!vars
  <2>1. /\ UNCHANGED <<queue, wjob, ctxDone, spc>>
        /\ \A i \in Jobs : i # wjob[w] => status'[i] = status[i]
    BY <1>0, <1>4 DEF WorkerStart, submitVars, TypeOK
  <2>2. \A i \in Jobs : ~Placed(i) => status'[i] = status[i]
    BY <2>1 DEF Placed
  <2> QED BY <2>1, <2>2, ServiceStutter
<1>5. ASSUME NEW err \in BOOLEAN, WorkerFinish(w, err)
      PROVE  \E how \in {"Completed", "Failed", "Cancelled"} : Service!End(w, how)
  <2>1. /\ Busy(w) /\ UNCHANGED <<queue, spc, ctxDone>> /\ wjob[w] \in Jobs
        /\ wjob' = [wjob EXCEPT ![w] = NoJob]
    BY <1>0, <1>5 DEF WorkerFinish, submitVars, Busy, WorkerHasJob
  <2>2. /\ \A i \in Jobs \ {wjob[w]} : status'[i] = status[i]
        /\ status'[wjob[w]] \in {"Completed", "Failed", "Cancelled"}
        /\ status'[wjob[w]] = "Cancelled" => status[wjob[w]] = "Cancelled" \/ wjob[w] \in ctxDone
    BY <1>0, <1>5, <2>1 DEF WorkerFinish, TypeOK
  <2>3. status'[wjob[w]] = "Cancelled" => wjob[w] \in ctxDone
    BY <2>1, <2>2 DEF AskedInv
  <2>4. Service!End(w, status'[wjob[w]])
    BY <2>1, <2>2, <2>3, ServiceEnd
  <2> QED BY <2>2, <2>4
<1> QED BY <1>1, <1>2, <1>3, <1>4, <1>5 DEF Worker, Service!Next

\* Every step of the queue is a step of the service or invisible.
LEMMA ServiceStep ==
    ASSUME OwnerInv, AskedInv, [Next]_vars
    PROVE  [Service!Next]_(Service!vars)
<1>1. ASSUME NEW j \in Jobs, SubmitEnqueue(j) PROVE [Service!Next]_(Service!vars)
  BY <1>1, ServiceAccept DEF Service!Next
<1>2. ASSUME NEW j \in Jobs, Submit(j), ~SubmitEnqueue(j) PROVE UNCHANGED Service!vars
  <2>1. /\ UNCHANGED <<queue, wjob, ctxDone, status>>
        /\ \A i \in Jobs : spc'[i] = "accepted" <=> spc[i] = "accepted"
    BY <1>2 DEF OwnerInv, TypeOK, Submit, SubmitSnapshot, FilterRunning, FilterPending, FilterDone,
                SubmitConflict, SubmitStore, SubmitFull, workerVars
  <2> QED BY <2>1, ServiceStutter
<1>3. ASSUME (\E j \in Jobs : Install(j)) \/ StopQueue \/ UNCHANGED vars PROVE UNCHANGED Service!vars
  <2>1. UNCHANGED <<queue, wjob, ctxDone, spc, status>>
    BY <1>3 DEF Install, InstallEnd, StopQueue, StopBegin, StopEnd, StopTimeout, vars, workerVars, submitVars
  <2> QED BY <2>1, ServiceStutter
<1> QED BY <1>1, <1>2, <1>3, ServiceCancel, ServiceWorker DEF Next, Idle

\* The queue implements the abstract service, for any number of jobs and workers
\* and any queue size: what Submit accepts is served once, first come first
\* served, by one worker, and let go only with a final status.
THEOREM QueueServesJobs == Spec => ServesJobs
<1>1. Init => AskedInv
  BY DEF Init, AskedInv
<1>2. Init => Service!Init
  <2> SUFFICES ASSUME Init PROVE Service!Init
    OBVIOUS
  <2>1. queue = <<>> /\ wjob = [w \in Workers |-> NoJob] /\ ctxDone = {} /\ \A j \in Jobs : spc[j] = "new"
    BY DEF Init
  <2>2. OutcomeBar = [j \in Jobs |-> "none"]
    BY <2>1 DEF OutcomeBar
  <2> QED BY <2>1, <2>2 DEF Service!Init
<1>3. OwnerInv /\ AskedInv /\ [Next]_vars => AskedInv'
  BY NextAskedInv
<1>4. OwnerInv /\ AskedInv /\ [Next]_vars => [Service!Next]_(Service!vars)
  BY ServiceStep
<1> QED BY <1>1, <1>2, <1>3, <1>4, OwnerAlways, PTL DEF Spec, ServesJobs, Service!Spec

(***************************************************************************)
(* The stream.  What a client of InstallPackage may rely on, for any number*)
(* of events and any capacity of the two channels: see PanicOnlyAfterCancel*)
(* and VerdictTrue in InstallStream.                                       *)
(***************************************************************************)

USE DEF appVars, workVars, handVars, Alive

\* A job that has just been submitted satisfies the invariant.
LEMMA InitStreamInv == StreamInit => StreamInv
<1> SUFFICES ASSUME StreamInit PROVE StreamInv
    OBVIOUS
<1>1. 0 \in Events
  BY SizeAssumption DEF Events
<1>2. /\ appChan \in Seq(Events) /\ Len(appChan) <= AppCap
      /\ progressChan \in Seq(Events) /\ Len(progressChan) <= StreamCap
      /\ received \in Seq(Events)
  BY SizeAssumption DEF StreamInit
<1>3. StreamTypeOK
  BY <1>1, <1>2 DEF StreamInit, StreamTypeOK
<1> QED BY <1>3 DEF StreamInit, StreamInv, EndIsKnown, PanicOnlyAfterCancel, VerdictTrue

\* The installation goroutine keeps the types: appProgressChan never holds
\* more than its capacity, because a full channel drops the event.
LEMMA AppTypes == StreamTypeOK /\ App => StreamTypeOK'
<1> SUFFICES ASSUME StreamTypeOK, App PROVE StreamTypeOK'
    OBVIOUS
<1>1. CASE AppProgress
  <2>1. sent + 1 \in Events
    BY <1>1, SizeAssumption DEF StreamTypeOK, AppProgress, Events
  <2>2. appChan' \in Seq(Events) /\ Len(appChan') <= AppCap
    BY <1>1, <2>1, SizeAssumption DEF StreamTypeOK, AppProgress
  <2> QED BY <1>1, <2>1, <2>2 DEF StreamTypeOK, AppProgress
<1>2. CASE AppClose
  BY <1>2 DEF StreamTypeOK, AppClose
<1>3. CASE AppResult
  BY <1>3 DEF StreamTypeOK, AppResult
<1> QED BY <1>1, <1>2, <1>3 DEF App

\* A send of the worker, to the open or to the closed stream, keeps the types.
LEMMA SendTypes ==
    ASSUME StreamTypeOK, NEW next \in {"callback", "receive"}, Send(next)
    PROVE  StreamTypeOK'
<1>1. progressChan' \in Seq(Events) /\ Len(progressChan') <= StreamCap
  <2>1. \/ progressChan' = progressChan
        \/ /\ Len(progressChan) < StreamCap
           /\ progressChan' = Append(progressChan, event)
    BY Zenon DEF Send
  <2>2. progressChan \in Seq(Events) /\ Len(progressChan) <= StreamCap /\ event \in Events
    BY DEF StreamTypeOK
  <2>3. Len(Append(progressChan, event)) = Len(progressChan) + 1
    BY <2>2
  <2> QED BY <2>1, <2>2, <2>3, SizeAssumption
<1>2. jobPc' \in {next, "panic"}
  BY Zenon DEF Send
<1>3. UNCHANGED <<jobStatus, jobCtxDone, cancelPc, appVars, event, streamClosed, handVars>>
  BY DEF Send
<1> QED BY <1>1, <1>2, <1>3 DEF StreamTypeOK

\* The worker keeps the types.
LEMMA WorkerTypes == StreamTypeOK /\ JobWorker => StreamTypeOK'
<1> SUFFICES ASSUME StreamTypeOK, JobWorker PROVE StreamTypeOK'
    OBVIOUS
<1>1. CASE JobCheck
  BY <1>1 DEF StreamTypeOK, JobCheck
<1>2. CASE JobStart
  BY <1>2 DEF StreamTypeOK, JobStart
<1>3. CASE JobReceive
  <2>1. /\ appChan' \in Seq(Events) /\ Len(appChan') <= AppCap
        /\ Head(appChan) \in Events
    BY <1>3, SizeAssumption DEF StreamTypeOK, JobReceive
  <2> QED BY <1>3, <2>1 DEF StreamTypeOK, JobReceive
<1>4. CASE JobResult
  BY <1>4 DEF StreamTypeOK, JobResult
<1>5. CASE JobForward \/ JobCallback
  BY <1>5, SendTypes DEF JobForward, JobCallback
<1>6. CASE JobFinish
  BY <1>6 DEF StreamTypeOK, JobFinish, Ended
<1> QED BY <1>1, <1>2, <1>3, <1>4, <1>5, <1>6 DEF JobWorker

\* stream.Send delivers the event and goes on, or ends the handler.
LEMMA StreamTypes ==
    ASSUME StreamTypeOK, NEW ev \in Events, Stream(ev, "loop")
    PROVE  received' \in Seq(Events) /\ hpc' \in {"loop", "returned"}
<1>1. received' \in {received, Append(received, ev)} /\ hpc' \in {"loop", "returned"}
  BY Zenon DEF Stream
<1> QED BY <1>1, SMTT(30) DEF StreamTypeOK

\* The handler, its client and CancelJob keep the types.
LEMMA HandlerTypes == StreamTypeOK /\ (Handler \/ Disconnect \/ CancelStream) => StreamTypeOK'
<1> SUFFICES ASSUME StreamTypeOK, Handler \/ Disconnect \/ CancelStream PROVE StreamTypeOK'
    OBVIOUS
<1>1. CASE HandlerInitial
  <2>1. 0 \in Events
    BY SizeAssumption DEF Events
  <2>2. received' \in Seq(Events) /\ hpc' \in {"loop", "returned"}
    BY <1>1, <2>1, StreamTypes DEF HandlerInitial
  <2> QED BY <1>1, <2>2 DEF StreamTypeOK, HandlerInitial
<1>2. CASE HandlerForward
  <2>1. /\ progressChan' \in Seq(Events) /\ Len(progressChan') <= StreamCap
        /\ Head(progressChan) \in Events
    BY <1>2, SizeAssumption DEF StreamTypeOK, HandlerForward
  <2>2. received' \in Seq(Events) /\ hpc' \in {"loop", "returned"}
    BY <1>2, <2>1, StreamTypes DEF HandlerForward
  <2> QED BY <1>2, <2>1, <2>2 DEF StreamTypeOK, HandlerForward
<1>3. CASE HandlerTick \/ HandlerClose \/ HandlerVerdict
  <2>1. /\ hpc' \in {"closing", "sending", "returned"}
        /\ final' \in {"none"} \union Ended /\ verdict' \in {"none"} \union Ended
        /\ streamClosed' \in BOOLEAN
    BY <1>3 DEF StreamTypeOK, HandlerTick, HandlerClose, HandlerVerdict
  <2>2. UNCHANGED HandlerRest
    BY <1>3 DEF HandlerTick, HandlerClose, HandlerVerdict
  <2> QED BY <2>1, <2>2 DEF StreamTypeOK, HandlerRest
<1>4. CASE Disconnect
  <2>1. /\ connected' \in BOOLEAN
        /\ UNCHANGED <<jobStatus, jobCtxDone, cancelPc, appVars, workVars, progressChan,
                       streamClosed, hpc, final, received, verdict>>
    BY <1>4 DEF Disconnect
  <2> QED BY <2>1 DEF StreamTypeOK
<1>5. CASE CancelStream
  BY <1>5 DEF StreamTypeOK, CancelStream, CancelStreamContext, CancelStreamStatus, Ended
<1> QED BY <1>1, <1>2, <1>3, <1>4, <1>5 DEF Handler

\* Every step keeps what is known about the job's end.  The worker's steps
\* matter before it is done, the handler's because it closes the stream and
\* sends what its tick has read.
LEMMA NextEndIsKnown ==
    ASSUME StreamInv, StreamNext
    PROVE  EndIsKnown' /\ PanicOnlyAfterCancel' /\ VerdictTrue'
<1> USE DEF StreamInv, EndIsKnown, PanicOnlyAfterCancel, VerdictTrue
<1>1. CASE App
  BY <1>1 DEF App, AppProgress, AppClose, AppResult
<1>2. CASE JobCheck \/ JobStart
  BY <1>2 DEF JobCheck, JobStart
<1>3. CASE JobReceive \/ JobResult
  BY <1>3 DEF JobReceive, JobResult, StreamTypeOK
<1>4. CASE JobForward \/ JobCallback
  <2>1. streamClosed => jobCtxDone
    BY <1>4 DEF JobForward, JobCallback, StreamTypeOK, Ended
  <2>2. jobPc' = "panic" => streamClosed
    BY <1>4, Zenon DEF JobForward, JobCallback, Send
  <2>3. /\ UNCHANGED <<jobStatus, jobCtxDone, cancelPc, appVars, event, streamClosed, handVars>>
        /\ jobPc \in {"forward", "callback"}
        /\ jobPc' \in {"callback", "receive", "panic"}
    BY <1>4, Zenon DEF JobForward, JobCallback, Send
  <2> QED BY <2>1, <2>2, <2>3
<1>5. CASE JobFinish
  BY <1>5 DEF JobFinish, StreamTypeOK
<1>6. CASE HandlerInitial \/ HandlerForward
  <2>1. hpc' \in {"loop", "returned"}
    BY <1>6, Zenon DEF HandlerInitial, HandlerForward, Stream
  <2>2. UNCHANGED <<jobStatus, jobCtxDone, cancelPc, appVars, workVars, streamClosed, final, verdict>>
    BY <1>6 DEF HandlerInitial, HandlerForward
  <2> QED BY <2>1, <2>2
<1>7. CASE HandlerTick
  BY <1>7 DEF HandlerTick, HandlerRest, Ended
<1>11. CASE HandlerClose \/ HandlerVerdict
  BY <1>11 DEF HandlerClose, HandlerVerdict, HandlerRest, Ended
<1>8. CASE Disconnect
  BY <1>8 DEF Disconnect
<1>9. CASE CancelStream
  BY <1>9 DEF CancelStream, CancelStreamContext, CancelStreamStatus
<1>10. CASE Over
  BY <1>10 DEF Over, streamVars
<1> QED BY <1>1, <1>2, <1>3, <1>4, <1>5, <1>6, <1>7, <1>8, <1>9, <1>10, <1>11
        DEF StreamNext, JobWorker, Handler

\* Every step keeps the invariant.
LEMMA NextStreamInv == StreamInv /\ [StreamNext]_streamVars => StreamInv'
<1> SUFFICES ASSUME StreamInv, [StreamNext]_streamVars PROVE StreamInv'
    OBVIOUS
<1>1. CASE StreamNext
  <2>1. CASE Over
    BY <2>1 DEF Over, streamVars, StreamInv, StreamTypeOK, EndIsKnown, PanicOnlyAfterCancel, VerdictTrue
  <2>2. CASE ~Over
    <3>1. StreamTypeOK'
      BY <1>1, <2>2, AppTypes, WorkerTypes, HandlerTypes DEF StreamInv, StreamNext
    <3> QED BY <1>1, <3>1, NextEndIsKnown DEF StreamInv
  <2> QED BY <2>1, <2>2
<1>2. CASE UNCHANGED streamVars
  BY <1>2 DEF streamVars, StreamInv, StreamTypeOK, EndIsKnown, PanicOnlyAfterCancel, VerdictTrue
<1> QED BY <1>1, <1>2

\* The states of the stream are those the declarations allow and neither
\* channel exceeds its capacity.
THEOREM StreamTypeCorrect == StreamSpec => []StreamTypeOK
<1>1. StreamInv => StreamTypeOK
  BY DEF StreamInv
<1> QED BY <1>1, InitStreamInv, NextStreamInv, PTL DEF StreamSpec

\* Only a canceled job can make the worker send on the stream the handler has
\* closed (service.go): without CancelJob no timing of the ticker, of the two
\* sends per event or of a client that leaves brings the daemon down.
THEOREM PanicNeedsCancel == StreamSpec => []PanicOnlyAfterCancel
<1>1. StreamInv => PanicOnlyAfterCancel
  BY DEF StreamInv
<1> QED BY <1>1, InitStreamInv, NextStreamInv, PTL DEF StreamSpec

\* The final event tells the truth: success only if the installation returned
\* nil, failure only if it returned an error, cancellation only if somebody
\* cancelled.
THEOREM VerdictCorrect == StreamSpec => []VerdictTrue
<1>1. StreamInv => VerdictTrue
  BY DEF StreamInv
<1> QED BY <1>1, InitStreamInv, NextStreamInv, PTL DEF StreamSpec

=============================================================================
