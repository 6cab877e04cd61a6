------------------------------ MODULE JobQueue ------------------------------
(***************************************************************************)
(* The daemon's job queue (internal/daemon/job.go) with the conflict       *)
(* detector that guards it (internal/daemon/conflict_detector.go).         *)
(*                                                                         *)
(* Every job is submitted by the goroutine of its own RPC, so Submit, its  *)
(* conflict check included, is a sequence of steps per job.  A worker      *)
(* reads the status of a job, locks it, runs it and locks it again; a      *)
(* CancelJob call ends the job's context and then writes the status.       *)
(* What a job executes is the closure of GRPMServer.InstallPackage: the    *)
(* installation proper runs on a goroutine of its own and the closure      *)
(* returns when that goroutine ends or when it notices that the job's      *)
(* context is done, whichever comes first.                                 *)
(***************************************************************************)
EXTENDS Integers, Sequences, FiniteSets

CONSTANTS Jobs, Workers,
          QueueSize,       \* capacity of the channel `queue`
          Packages,
          PackageOf,       \* job -> Job.PackageName, without version
          Affects,         \* job -> that package and what resolution adds
          Priority,        \* job -> Job.Priority
          MayFail,         \* jobs whose installation may fail
          MayCancel,       \* jobs a client may cancel (once)
          ResolveMayFail,  \* may the detector's ResolvePackage calls fail?
          OneSubmitAtATime,\* do clients wait for each other's Submit?
          MayStop,         \* may the daemon stop the queue?
          NoJob

ASSUME JobsAssumption == IsFiniteSet(Jobs) /\ NoJob \notin Jobs
ASSUME SizesAssumption == QueueSize \in Nat /\ IsFiniteSet(Workers)
ASSUME PackageAssumption ==
    /\ PackageOf \in [Jobs -> Packages]
    /\ Affects \in [Jobs -> SUBSET Packages]
    /\ \A j \in Jobs : PackageOf[j] \in Affects[j]
ASSUME PriorityAssumption == Priority \in [Jobs -> Int]

VARIABLES
    jobs,        \* the jobs map
    status,      \* job -> status
    ctxDone,     \* jobs whose context is canceled
    queue,       \* the channel
    wpc, wjob,   \* per worker: control point and the job it holds
    spc,         \* job -> control point of the RPC that submits it
    unread,      \* job -> jobs its conflict check has not looked at yet
    reading,     \* job -> job between the two GetStatus calls of the check
    active,      \* job -> jobs its check found active
    blocker,     \* job -> the active job it was refused for
    cpc,         \* job -> control point of its CancelJob call
    installing,  \* jobs whose installation goroutine is running
    result,      \* job -> what that goroutine returned
    queueDone,   \* the queue's own context is canceled
    stop,        \* control point of JobQueue.Stop
    steady       \* history: job -> jobs whose status has not changed from
                 \* Running (or from Pending) since its check began

submitVars == <<spc, unread, reading, active, blocker>>
workerVars == <<wpc, wjob>>
installVars == <<installing, result>>
stopVars == <<queueDone, stop>>
vars == <<jobs, status, ctxDone, queue, workerVars, submitVars, cpc,
          installVars, stopVars, steady>>

ActiveStatus == {"Pending", "Running"}
Terminal == {"Completed", "Failed", "Cancelled"}
Members(s) == {s[i] : i \in 1..Len(s)}

Init ==
    /\ jobs = {} /\ queue = <<>>
    /\ status = [j \in Jobs |-> "Pending"]
    /\ ctxDone = {}
    /\ wpc = [w \in Workers |-> "select"] /\ wjob = [w \in Workers |-> NoJob]
    /\ spc = [j \in Jobs |-> "new"]
    /\ unread = [j \in Jobs |-> {}] /\ reading = [j \in Jobs |-> NoJob]
    /\ active = [j \in Jobs |-> {}] /\ blocker = [j \in Jobs |-> NoJob]
    /\ cpc = [j \in Jobs |-> "none"]
    /\ installing = {} /\ result = [j \in Jobs |-> "none"]
    /\ queueDone = FALSE /\ stop = "no"
    /\ steady = [j \in Jobs |-> {}]

\* A write of k's status ends k's steadiness for every check under way.
Unsettle(k) == steady' = [j \in Jobs |-> steady[j] \ {k}]

(***************************************************************************)
(* Submit, DetectConflicts, filterActiveJobs.                              *)
(***************************************************************************)
Submitting(j) == spc[j] \in {"filter", "stored"}

\* The copy of the jobs map, under the read lock.
SubmitSnapshot(j) ==
    /\ spc[j] = "new"
    /\ OneSubmitAtATime => \A k \in Jobs : ~Submitting(k)
    /\ spc' = [spc EXCEPT ![j] = "filter"]
    /\ unread' = [unread EXCEPT ![j] = jobs]
    /\ steady' = [steady EXCEPT ![j] = {k \in jobs : status[k] \in ActiveStatus}]
    /\ UNCHANGED <<jobs, status, ctxDone, queue, workerVars, reading, active,
                   blocker, cpc, installVars, stopVars>>

\* GetStatus() == JobStatusRunning ...
FilterRunning(j, k) ==
    /\ spc[j] = "filter" /\ reading[j] = NoJob
    /\ k \in unread[j]
    /\ unread' = [unread EXCEPT ![j] = @ \ {k}]
    /\ IF status[k] = "Running"
         THEN active' = [active EXCEPT ![j] = @ \union {k}] /\ UNCHANGED reading
         ELSE reading' = [reading EXCEPT ![j] = k] /\ UNCHANGED active
    /\ UNCHANGED <<jobs, status, ctxDone, queue, workerVars, spc, blocker,
                   cpc, installVars, stopVars, steady>>

\* Mutant: only running jobs count as active.
FilterPending_RunningOnly(j) ==
    /\ spc[j] = "filter" /\ reading[j] # NoJob
    /\ reading' = [reading EXCEPT ![j] = NoJob]
    /\ UNCHANGED <<jobs, status, ctxDone, queue, workerVars, spc, unread,
                   active, blocker, cpc, installVars, stopVars, steady>>

\* ... || GetStatus() == JobStatusPending, a second critical section.
FilterPending(j) ==
    /\ spc[j] = "filter" /\ reading[j] # NoJob
    /\ reading' = [reading EXCEPT ![j] = NoJob]
    /\ active' = IF status[reading[j]] = "Pending"
                   THEN [active EXCEPT ![j] = @ \union {reading[j]}]
                   ELSE active
    /\ UNCHANGED <<jobs, status, ctxDone, queue, workerVars, spc, unread,
                   blocker, cpc, installVars, stopVars, steady>>

\* What getAffectedPackages may return: a failed resolution leaves only the
\* job's own package.
AffectedPackages(j) ==
    IF ResolveMayFail THEN {Affects[j], {PackageOf[j]}} ELSE {Affects[j]}

checkJobConflict(j, k, newAffected, existingAffected) ==
    \/ PackageOf[j] = PackageOf[k]
    \/ newAffected \cap existingAffected # {}

FilterDone(j) == spc[j] = "filter" /\ unread[j] = {} /\ reading[j] = NoJob

\* A conflict with k ends Submit with an error and leaves no trace.
SubmitConflict(j, k) ==
    /\ FilterDone(j)
    /\ k \in active[j]
    /\ \E a \in AffectedPackages(j), b \in AffectedPackages(k) :
          checkJobConflict(j, k, a, b)
    /\ spc' = [spc EXCEPT ![j] = "conflict"]
    /\ blocker' = [blocker EXCEPT ![j] = k]
    /\ UNCHANGED <<jobs, status, ctxDone, queue, workerVars, unread, reading,
                   active, cpc, installVars, stopVars, steady>>

\* No conflict: the job enters the map, under the write lock.
SubmitStore(j) ==
    /\ FilterDone(j)
    /\ \E a \in AffectedPackages(j) : \A k \in active[j] :
          \E b \in AffectedPackages(k) : ~checkJobConflict(j, k, a, b)
    /\ jobs' = jobs \union {j}
    /\ spc' = [spc EXCEPT ![j] = "stored"]
    /\ UNCHANGED <<status, ctxDone, queue, workerVars, unread, reading, active,
                   blocker, cpc, installVars, stopVars, steady>>

\* The non-blocking send, and the error when the channel is full.  The job
\* stays in the map either way.
SubmitEnqueue(j) ==
    /\ spc[j] = "stored"
    /\ Len(queue) < QueueSize
    /\ queue' = Append(queue, j)
    /\ spc' = [spc EXCEPT ![j] = "accepted"]
    /\ UNCHANGED <<jobs, status, ctxDone, workerVars, unread, reading, active,
                   blocker, cpc, installVars, stopVars, steady>>

SubmitFull(j) ==
    /\ spc[j] = "stored"
    /\ Len(queue) >= QueueSize
    /\ spc' = [spc EXCEPT ![j] = "full"]
    /\ UNCHANGED <<jobs, status, ctxDone, queue, workerVars, unread, reading,
                   active, blocker, cpc, installVars, stopVars, steady>>

(***************************************************************************)
(* worker and executeJob.                                                  *)
(***************************************************************************)
\* Mutant: the worker stays until every job in the map has ended.
WorkerExit_WaitsForJobs(w) ==
    /\ wpc[w] = "select" /\ queueDone
    /\ \A j \in jobs : status[j] \in Terminal
    /\ wpc' = [wpc EXCEPT ![w] = "exited"]
    /\ UNCHANGED <<jobs, status, ctxDone, queue, wjob, submitVars, cpc,
                   installVars, stopVars, steady>>

WorkerExit(w) ==
    /\ wpc[w] = "select" /\ queueDone
    /\ wpc' = [wpc EXCEPT ![w] = "exited"]
    /\ UNCHANGED <<jobs, status, ctxDone, queue, wjob, submitVars, cpc,
                   installVars, stopVars, steady>>

WorkerReceive(w) ==
    /\ wpc[w] = "select" /\ queue # <<>>
    /\ wjob' = [wjob EXCEPT ![w] = Head(queue)]
    /\ queue' = Tail(queue)
    /\ wpc' = [wpc EXCEPT ![w] = "received"]
    /\ UNCHANGED <<jobs, status, ctxDone, submitVars, cpc, installVars,
                   stopVars, steady>>

\* Mutant: a job whose context is done is dropped, whatever its status.
WorkerSkip_ByContext(w) ==
    /\ wpc[w] = "received" /\ wjob[w] \in ctxDone
    /\ wpc' = [wpc EXCEPT ![w] = "select"]
    /\ wjob' = [wjob EXCEPT ![w] = NoJob]
    /\ UNCHANGED <<jobs, status, ctxDone, queue, submitVars, cpc, installVars,
                   stopVars, steady>>

\* The check for a cancellation, in a critical section of its own.
WorkerSkip(w) ==
    /\ wpc[w] = "received" /\ status[wjob[w]] = "Cancelled"
    /\ wpc' = [wpc EXCEPT ![w] = "select"]
    /\ wjob' = [wjob EXCEPT ![w] = NoJob]
    /\ UNCHANGED <<jobs, status, ctxDone, queue, submitVars, cpc, installVars,
                   stopVars, steady>>

WorkerCheck(w) ==
    /\ wpc[w] = "received" /\ status[wjob[w]] # "Cancelled"
    /\ wpc' = [wpc EXCEPT ![w] = "starting"]
    /\ UNCHANGED <<jobs, status, ctxDone, queue, wjob, submitVars, cpc,
                   installVars, stopVars, steady>>

\* status = Running; the closure starts the installation goroutine.
WorkerStart(w) ==
    /\ wpc[w] = "starting"
    /\ status' = [status EXCEPT ![wjob[w]] = "Running"]
    /\ installing' = installing \union {wjob[w]}
    /\ wpc' = [wpc EXCEPT ![w] = "running"]
    /\ Unsettle(wjob[w])
    /\ UNCHANGED <<jobs, ctxDone, queue, wjob, submitVars, cpc, result,
                   stopVars>>

\* PackageService.InstallPackage returns.  Nothing makes it return early.
InstallEnd(j, err) ==
    /\ j \in installing
    /\ err => j \in MayFail
    /\ installing' = installing \ {j}
    /\ result' = [result EXCEPT ![j] = IF err THEN "error" ELSE "nil"]
    /\ UNCHANGED <<jobs, status, ctxDone, queue, workerVars, submitVars, cpc,
                   stopVars, steady>>

\* Mutant: the final status overwrites a cancellation.
WorkerFinish_Overwrites(w, err) ==
    LET j == wjob[w] IN
    /\ wpc[w] = "running"
    /\ \/ result[j] # "none" /\ err = (result[j] = "error")
       \/ j \in ctxDone /\ err
    /\ status' = [status EXCEPT ![j] = IF err THEN "Failed" ELSE "Completed"]
    /\ wpc' = [wpc EXCEPT ![w] = "select"]
    /\ wjob' = [wjob EXCEPT ![w] = NoJob]
    /\ Unsettle(j)
    /\ UNCHANGED <<jobs, ctxDone, queue, submitVars, cpc, installVars,
                   stopVars>>

\* The closure returns (its installation has, or the context is done) and
\* executeJob decides the final status under the job's lock.
WorkerFinish(w, err) ==
    LET j == wjob[w] IN
    /\ wpc[w] = "running"
    /\ \/ result[j] # "none" /\ err = (result[j] = "error")
       \/ j \in ctxDone /\ err
    /\ status' = [status EXCEPT ![j] =
                    IF @ = "Cancelled" THEN @
                    ELSE IF ~err THEN "Completed"
                    ELSE IF j \in ctxDone THEN "Cancelled" ELSE "Failed"]
    /\ wpc' = [wpc EXCEPT ![w] = "select"]
    /\ wjob' = [wjob EXCEPT ![w] = NoJob]
    /\ Unsettle(j)
    /\ UNCHANGED <<jobs, ctxDone, queue, submitVars, cpc, installVars,
                   stopVars>>

(***************************************************************************)
(* CancelJob and Stop.                                                     *)
(***************************************************************************)
\* Any job in the map, whatever its status: j.cancel() ...
CancelContext(j) ==
    /\ j \in jobs /\ j \in MayCancel /\ cpc[j] = "none"
    /\ ctxDone' = ctxDone \union {j}
    /\ cpc' = [cpc EXCEPT ![j] = "canceling"]
    /\ UNCHANGED <<jobs, status, queue, workerVars, submitVars, installVars,
                   stopVars, steady>>

\* ... and then the status, under the job's lock.
CancelStatus(j) ==
    /\ cpc[j] = "canceling"
    /\ status' = [status EXCEPT ![j] = "Cancelled"]
    /\ cpc' = [cpc EXCEPT ![j] = "returned"]
    /\ Unsettle(j)
    /\ UNCHANGED <<jobs, ctxDone, queue, workerVars, submitVars, installVars,
                   stopVars>>

StopBegin ==
    /\ MayStop /\ stop = "no"
    /\ queueDone' = TRUE /\ stop' = "waiting"
    /\ UNCHANGED <<jobs, status, ctxDone, queue, workerVars, submitVars, cpc,
                   installVars, steady>>

StopEnd ==
    /\ stop = "waiting"
    /\ \A w \in Workers : wpc[w] = "exited"
    /\ stop' = "stopped"
    /\ UNCHANGED <<jobs, status, ctxDone, queue, workerVars, submitVars, cpc,
                   installVars, queueDone, steady>>

\* The caller's context ends first: "job queue shutdown timeout".
StopTimeout ==
    /\ stop = "waiting"
    /\ stop' = "timeout"
    /\ UNCHANGED <<jobs, status, ctxDone, queue, workerVars, submitVars, cpc,
                   installVars, queueDone, steady>>

(***************************************************************************)
(* The specification.                                                      *)
(***************************************************************************)
Submit(j) ==
    \/ SubmitSnapshot(j)
    \/ \E k \in Jobs : FilterRunning(j, k)
    \/ FilterPending(j)
    \/ \E k \in Jobs : SubmitConflict(j, k)
    \/ SubmitStore(j)
    \/ SubmitEnqueue(j)
    \/ SubmitFull(j)

Worker(w) ==
    \/ WorkerExit(w)
    \/ WorkerReceive(w)
    \/ WorkerSkip(w)
    \/ WorkerCheck(w)
    \/ WorkerStart(w)
    \/ \E err \in BOOLEAN : WorkerFinish(w, err)

Install(j) == \E err \in BOOLEAN : InstallEnd(j, err)

CancelJob(j) == CancelContext(j) \/ CancelStatus(j)

StopQueue == StopBegin \/ StopEnd \/ StopTimeout

\* Clients may stay away for good and the workers wait for them.
Idle ==
    /\ \A j \in Jobs : spc[j] \in {"conflict", "full", "accepted"}
                       /\ cpc[j] # "canceling" /\ j \notin installing
    /\ \A w \in Workers : wpc[w] \in {"select", "exited"}
    /\ UNCHANGED vars

Next ==
    \/ \E j \in Jobs : Submit(j) \/ Install(j) \/ CancelJob(j)
    \/ \E w \in Workers : Worker(w)
    \/ StopQueue
    \/ Idle

Spec == Init /\ [][Next]_vars

\* Workers run, an installation ends, and a Submit or a CancelJob that has
\* begun goes on; nobody is obliged to submit, to cancel or to stop.
FairSpec ==
    /\ Spec
    /\ \A w \in Workers : WF_vars(Worker(w))
    /\ \A j \in Jobs : /\ WF_vars(Install(j))
                       /\ WF_vars(Submit(j) /\ spc[j] # "new")
                       /\ WF_vars(CancelStatus(j))

(***************************************************************************)
(* Properties.                                                             *)
(***************************************************************************)
Conflicting(j, k) == Affects[j] \cap Affects[k] # {}

\* The queue's variables have the shape job.go gives them and the channel
\* never holds more than QueueSize jobs.
TypeOK ==
    /\ jobs \in SUBSET Jobs /\ ctxDone \in SUBSET Jobs
    /\ status \in [Jobs -> ActiveStatus \union Terminal]
    /\ queue \in Seq(Jobs) /\ Len(queue) <= QueueSize
    /\ wpc \in [Workers -> {"select", "received", "starting", "running", "exited"}]
    /\ wjob \in [Workers -> Jobs \union {NoJob}]
    /\ spc \in [Jobs -> {"new", "filter", "conflict", "stored", "full", "accepted"}]
    /\ unread \in [Jobs -> SUBSET Jobs] /\ active \in [Jobs -> SUBSET Jobs]
    /\ reading \in [Jobs -> Jobs \union {NoJob}]
    /\ blocker \in [Jobs -> Jobs \union {NoJob}]
    /\ cpc \in [Jobs -> {"none", "canceling", "returned"}]
    /\ installing \in SUBSET Jobs
    /\ result \in [Jobs -> {"none", "nil", "error"}]
    /\ queueDone \in BOOLEAN
    /\ stop \in {"no", "waiting", "stopped", "timeout"}
    /\ steady \in [Jobs -> SUBSET Jobs]

\* daemon.go:111, the detector is there "for safe concurrent package
\* operations": installations that affect a common package never overlap.
ConflictingNeverOverlap ==
    \A j, k \in installing : j # k => ~Conflicting(j, k)

\* What the detector does guarantee: a job that conflicts with one that kept
\* the status Running, or Pending, throughout the check is not admitted.
SteadyConflictRefused ==
    \A j \in jobs : \A k \in steady[j] :
        spc[j] = "stored" => ~Conflicting(j, k)

\* Why: while the check runs, a steady job has not been looked at, was found
\* active, or was found not running and is pending.
CheckSound ==
    \A j \in Jobs : spc[j] = "filter" => \A k \in steady[j] :
        /\ status[k] \in ActiveStatus
        /\ \/ k \in unread[j]
           \/ k \in active[j]
           \/ reading[j] = k /\ status[k] = "Pending"

StoredSound ==
    \A j \in Jobs : spc[j] = "stored" => \A k \in steady[j] : ~Conflicting(j, k)

WorkerHasJob ==
    \A w \in Workers :
        wpc[w] \in {"received", "starting", "running"} => wjob[w] \in Jobs

\* The inductive invariant behind SteadyConflictRefused.
IndInv == TypeOK /\ WorkerHasJob /\ CheckSound /\ StoredSound

Holds(w, j) == wjob[w] = j /\ wpc[w] # "select"

\* Every accepted job that still counts as active is on its way: it waits in
\* the channel or exactly one worker holds it.  An active job nobody works on
\* would block its packages for good.
AcceptedHasOwner ==
    \A j \in Jobs : (spc[j] = "accepted" /\ status[j] \in ActiveStatus) =>
        \/ j \in Members(queue) /\ \A w \in Workers : ~Holds(w, j)
        \/ /\ j \notin Members(queue)
           /\ \E w \in Workers : /\ Holds(w, j)
                                 /\ \A v \in Workers : Holds(v, j) => v = w

\* How the jobs ended that were accepted and that nobody waits for or works on.
OutcomeBar ==
    [j \in Jobs |-> IF /\ spc[j] = "accepted" /\ j \notin Members(queue)
                       /\ \A w \in Workers : wjob[w] # j
                      THEN status[j] ELSE "none"]

Service == INSTANCE JobService WITH
               Servers <- Workers, Capacity <- QueueSize,
               waiting <- queue, serving <- wjob, outcome <- OutcomeBar,
               asked <- ctxDone

\* The queue implements JobService (Submit, worker, executeJob and CancelJob of
\* job.go): every accepted job is served once, in the order of acceptance, by
\* one worker; it is let go only with a final status; and that status changes
\* only when a cancellation comes after the end.
ServesJobs == Service!Spec

\* A cancelled job stays cancelled, unless a worker had already passed its
\* check of the status and is about to write Running (job.go:243-251).
CancelUndoneOnlyByStartingWorker ==
    [][\A j \in Jobs :
          (status[j] = "Cancelled" /\ status'[j] # "Cancelled") =>
              \E w \in Workers : wjob[w] = j /\ wpc[w] = "starting"]_vars

\* service.go:397 reports "Job %s canceled successfully": after CancelJob has
\* returned the job is cancelled.
CancelledForGood ==
    \A j \in Jobs : cpc[j] = "returned" => status[j] = "Cancelled"

\* service.go:382, CancelJob "cancels a running or pending job": what ended as
\* completed or failed remains so.
FinishedStays ==
    [][\A j \in Jobs : status[j] \in {"Completed", "Failed"} =>
          status'[j] = status[j]]_vars

\* conflict_detector.go:98: a job is refused because an operation "is in
\* progress", never because of a job that was itself refused.
RefusedForLiveJob ==
    \A j \in Jobs : spc[j] = "conflict" => spc[blocker[j]] # "full"

\* docs/ARCHITECTURE.md:147, "Prioritized queue": a worker takes a job of the
\* highest priority in the queue.
HighestPriorityFirst ==
    [][\A w \in Workers : (wpc[w] = "select" /\ wpc'[w] = "received") =>
          \A k \in Members(queue) : Priority[k] <= Priority[wjob'[w]]]_vars

\* An accepted job ends, if the queue is not stopped.
AcceptedEnds ==
    \A j \in Jobs : spc[j] = "accepted" ~> (status[j] \in Terminal \/ queueDone)

\* Once Stop was called every worker exits, whatever is still in the queue.
StopReleasesWorkers ==
    queueDone ~> \A w \in Workers : wpc[w] = "exited"

\* Everybody ends: an accepted job that is active has one owner, and it ends, and
\* after Stop the workers do (worker, executeJob and Stop of job.go).
EveryoneEnds == []AcceptedHasOwner /\ AcceptedEnds /\ StopReleasesWorkers

=============================================================================
