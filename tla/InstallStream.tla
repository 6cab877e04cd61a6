---------------------------- MODULE InstallStream ----------------------------
(***************************************************************************)
(* One InstallPackage RPC from the client's call to the last event of its  *)
(* stream (internal/daemon/service.go): the handler that streams, the      *)
(* queue's worker that runs the job's closure, the goroutine that runs     *)
(* PackageService.InstallPackage, a client that may go away and a second   *)
(* client that may cancel the job.  The job itself behaves as in JobQueue; *)
(* Submit has succeeded.                                                   *)
(*                                                                         *)
(* An event is its number: the application service sends events            *)
(* 1..NumEvents to appChan, the closure forwards each one to progressChan, *)
(* and UpdateProgress sends it there once more through progressCallback.   *)
(***************************************************************************)
EXTENDS Integers, Sequences

CONSTANTS NumEvents,      \* sendProgress calls of a successful installation
          AppCap,         \* capacity of appProgressChan
          StreamCap,      \* capacity of progressChan
          MayCancelJob,   \* may a client call CancelJob?
          MayDisconnect   \* may the stream's client go away?

ASSUME SizeAssumption ==
    NumEvents \in Nat \ {0} /\ AppCap \in Nat /\ StreamCap \in Nat

VARIABLES
    jobStatus,     \* the job's status
    jobCtxDone,    \* the job's context is canceled
    cancelPc,      \* control point of CancelJob
    sent,          \* events the application service has tried to send
    appChan, appClosed,
    errChan,       \* what the installation goroutine put there
    jobPc, event,  \* the worker: control point and the event it forwards
    progressChan, streamClosed,
    hpc,           \* control point of the handler
    final,         \* the status the handler's last tick has read
    connected,     \* the client is still there
    received,      \* events the client has received
    verdict        \* the final event the handler sent

appVars == <<sent, appChan, appClosed, errChan>>
workVars == <<jobPc, event>>
handVars == <<hpc, final, connected, received, verdict>>
streamVars == <<jobStatus, jobCtxDone, cancelPc, appVars, workVars,
                progressChan, streamClosed, handVars>>

Ended == {"Completed", "Failed", "Cancelled"}

StreamInit ==
    /\ jobStatus = "Pending" /\ jobCtxDone = FALSE /\ cancelPc = "none"
    /\ sent = 0 /\ appChan = <<>> /\ appClosed = FALSE /\ errChan = "empty"
    /\ jobPc = "queued" /\ event = 0
    /\ progressChan = <<>> /\ streamClosed = FALSE
    /\ hpc = "initial" /\ final = "none" /\ connected = TRUE
    /\ received = <<>> /\ verdict = "none"

\* A worker's panic ends the daemon: internal/daemon recovers nowhere.
Alive == jobPc # "panic"

(***************************************************************************)
(* PackageService.InstallPackage on its own goroutine.                     *)
(***************************************************************************)
AppRunning ==
    jobPc \notin {"queued", "starting", "panic"} /\ errChan = "empty" /\ ~appClosed

\* sendProgress: an event that finds the channel full is skipped.
AppProgress ==
    /\ AppRunning /\ sent < NumEvents
    /\ sent' = sent + 1
    /\ appChan' = IF Len(appChan) < AppCap THEN Append(appChan, sent + 1)
                                           ELSE appChan
    /\ UNCHANGED <<jobStatus, jobCtxDone, cancelPc, appClosed, errChan,
                   workVars, progressChan, streamClosed, handVars>>

\* It returns: nil after the last event, an error after the first one (the
\* resolution failed).  The goroutine closes appProgressChan ...
AppClose ==
    /\ AppRunning /\ sent \in {1, NumEvents}
    /\ appClosed' = TRUE
    /\ UNCHANGED <<jobStatus, jobCtxDone, cancelPc, sent, appChan, errChan,
                   workVars, progressChan, streamClosed, handVars>>

\* Mutant: only a successful installation reports its end.
AppResult_OnlySuccess ==
    /\ Alive /\ appClosed /\ errChan = "empty" /\ sent = NumEvents
    /\ errChan' = "nil"
    /\ UNCHANGED <<jobStatus, jobCtxDone, cancelPc, sent, appChan, appClosed,
                   workVars, progressChan, streamClosed, handVars>>

\* ... and then sends the result to errChan.
AppResult ==
    /\ Alive /\ appClosed /\ errChan = "empty"
    /\ errChan' = IF sent = NumEvents THEN "nil" ELSE "error"
    /\ UNCHANGED <<jobStatus, jobCtxDone, cancelPc, sent, appChan, appClosed,
                   workVars, progressChan, streamClosed, handVars>>

(***************************************************************************)
(* The worker: executeJob around the job's closure.                        *)
(***************************************************************************)
JobCheck ==
    /\ jobPc = "queued"
    /\ jobPc' = IF jobStatus = "Cancelled" THEN "done" ELSE "starting"
    /\ UNCHANGED <<jobStatus, jobCtxDone, cancelPc, appVars, event,
                   progressChan, streamClosed, handVars>>

JobStart ==
    /\ jobPc = "starting"
    /\ jobStatus' = "Running" /\ jobPc' = "receive"
    /\ UNCHANGED <<jobCtxDone, cancelPc, appVars, event, progressChan,
                   streamClosed, handVars>>

\* An event of appProgressChan, unless the context is done by then.
JobReceive ==
    /\ jobPc = "receive" /\ appChan # <<>>
    /\ appChan' = Tail(appChan)
    /\ IF jobCtxDone
         THEN jobPc' = "failed" /\ UNCHANGED event
         ELSE jobPc' = "forward" /\ event' = Head(appChan)
    /\ UNCHANGED <<jobStatus, jobCtxDone, cancelPc, sent, appClosed, errChan,
                   progressChan, streamClosed, handVars>>

\* Mutant: the closed channel is taken for success.
JobResult_NoError ==
    /\ jobPc = "receive" /\ appChan = <<>> /\ appClosed
    /\ jobPc' = "succeeded"
    /\ UNCHANGED <<jobStatus, jobCtxDone, cancelPc, appVars, event,
                   progressChan, streamClosed, handVars>>

\* appProgressChan is closed and drained: return <-errChan.
JobResult ==
    /\ jobPc = "receive" /\ appChan = <<>> /\ appClosed
    /\ errChan # "empty"
    /\ jobPc' = IF errChan = "nil" THEN "succeeded" ELSE "failed"
    /\ UNCHANGED <<jobStatus, jobCtxDone, cancelPc, appVars, event,
                   progressChan, streamClosed, handVars>>

\* A send to progressChan: blocks while it is full, panics once it is closed.
Send(next) ==
    /\ streamClosed \/ Len(progressChan) < StreamCap
    /\ IF streamClosed
         THEN jobPc' = "panic" /\ UNCHANGED progressChan
         ELSE jobPc' = next /\ progressChan' = Append(progressChan, event)
    /\ UNCHANGED <<jobStatus, jobCtxDone, cancelPc, appVars, event,
                   streamClosed, handVars>>

JobForward == jobPc = "forward" /\ Send("callback")

\* UpdateProgress and its callback.
JobCallback == jobPc = "callback" /\ Send("receive")

\* executeJob decides the final status.
JobFinish ==
    /\ jobPc \in {"succeeded", "failed"}
    /\ jobStatus' = IF jobStatus = "Cancelled" THEN jobStatus
                    ELSE IF jobPc = "succeeded" THEN "Completed"
                    ELSE IF jobCtxDone THEN "Cancelled" ELSE "Failed"
    /\ jobPc' = "done"
    /\ UNCHANGED <<jobCtxDone, cancelPc, appVars, event, progressChan,
                   streamClosed, handVars>>

(***************************************************************************)
(* The handler after Submit, and its client.                               *)
(***************************************************************************)
\* stream.Send: an error once the client is gone, and the handler returns.
Stream(ev, next) ==
    IF connected THEN received' = Append(received, ev) /\ hpc' = next
                 ELSE hpc' = "returned" /\ UNCHANGED received

HandlerInitial ==
    /\ Alive /\ hpc = "initial"
    /\ Stream(0, "loop")
    /\ UNCHANGED <<jobStatus, jobCtxDone, cancelPc, appVars, workVars,
                   progressChan, streamClosed, final, connected, verdict>>

HandlerForward ==
    /\ Alive /\ hpc = "loop" /\ progressChan # <<>>
    /\ progressChan' = Tail(progressChan)
    /\ Stream(Head(progressChan), "loop")
    /\ UNCHANGED <<jobStatus, jobCtxDone, cancelPc, appVars, workVars,
                   streamClosed, final, connected, verdict>>

\* What the handler's last three steps leave alone.
HandlerRest == <<jobStatus, jobCtxDone, cancelPc, appVars, workVars,
                 progressChan, connected, received>>

\* Mutant: the last progress event is taken for the end of the job.
HandlerTick_LastEvent ==
    /\ Alive /\ hpc = "loop" /\ (jobStatus \in Ended \/ sent = NumEvents)
    /\ hpc' = "closing" /\ final' = jobStatus
    /\ UNCHANGED <<HandlerRest, streamClosed, verdict>>

\* The ticker fires and GetStatus says that the job has ended.
HandlerTick ==
    /\ Alive /\ hpc = "loop" /\ jobStatus \in Ended
    /\ hpc' = "closing" /\ final' = jobStatus
    /\ UNCHANGED <<HandlerRest, streamClosed, verdict>>

\* close(progressChan), whoever still sends on it.
HandlerClose ==
    /\ Alive /\ hpc = "closing"
    /\ streamClosed' = TRUE /\ hpc' = "sending"
    /\ UNCHANGED <<HandlerRest, final, verdict>>

\* The last event, in a daemon that has survived the close, to a client that
\* is still there.
HandlerVerdict ==
    /\ Alive /\ hpc = "sending"
    /\ hpc' = "returned"
    /\ verdict' = IF connected THEN final ELSE verdict
    /\ UNCHANGED <<HandlerRest, streamClosed, final>>

Disconnect ==
    /\ MayDisconnect /\ connected /\ hpc # "returned"
    /\ connected' = FALSE
    /\ UNCHANGED <<jobStatus, jobCtxDone, cancelPc, appVars, workVars,
                   progressChan, streamClosed, hpc, final, received, verdict>>

CancelStreamContext ==
    /\ Alive /\ MayCancelJob /\ cancelPc = "none"
    /\ jobCtxDone' = TRUE /\ cancelPc' = "canceling"
    /\ UNCHANGED <<jobStatus, appVars, workVars, progressChan, streamClosed,
                   handVars>>

CancelStreamStatus ==
    /\ Alive /\ cancelPc = "canceling"
    /\ jobStatus' = "Cancelled" /\ cancelPc' = "returned"
    /\ UNCHANGED <<jobCtxDone, appVars, workVars, progressChan, streamClosed,
                   handVars>>

(***************************************************************************)
(* The specification.                                                      *)
(***************************************************************************)
App == AppProgress \/ AppClose \/ AppResult

JobWorker ==
    \/ JobCheck
    \/ JobStart
    \/ JobReceive
    \/ JobResult
    \/ JobForward
    \/ JobCallback
    \/ JobFinish

Handler ==
    \/ HandlerInitial
    \/ HandlerForward
    \/ HandlerTick
    \/ HandlerClose
    \/ HandlerVerdict

CancelStream == CancelStreamContext \/ CancelStreamStatus

\* The RPC is over and the worker has left the job, or the daemon is dead.
Over ==
    /\ ~Alive \/ (hpc = "returned" /\ jobPc = "done")
    /\ UNCHANGED streamVars

StreamNext == App \/ JobWorker \/ Handler \/ Disconnect \/ CancelStream \/ Over

StreamSpec == StreamInit /\ [][StreamNext]_streamVars

\* Goroutines that can move do; the ticker keeps firing.  HandlerTick needs
\* strong fairness: it competes with HandlerForward in one select, which
\* chooses at random.
StreamFairSpec ==
    /\ StreamSpec
    /\ WF_streamVars(App)
    /\ WF_streamVars(JobWorker)
    /\ WF_streamVars(Handler) /\ SF_streamVars(HandlerTick)
    /\ WF_streamVars(CancelStreamStatus)

(***************************************************************************)
(* Properties.                                                             *)
(***************************************************************************)
Events == 0..NumEvents

\* The variables have the shape service.go gives them and both channels
\* respect their capacity.
StreamTypeOK ==
    /\ jobStatus \in {"Pending", "Running"} \union Ended
    /\ jobCtxDone \in BOOLEAN
    /\ cancelPc \in {"none", "canceling", "returned"}
    /\ sent \in Events
    /\ appChan \in Seq(Events) /\ Len(appChan) <= AppCap
    /\ appClosed \in BOOLEAN /\ errChan \in {"empty", "nil", "error"}
    /\ jobPc \in {"queued", "starting", "receive", "forward", "callback",
                "succeeded", "failed", "done", "panic"}
    /\ event \in Events
    /\ progressChan \in Seq(Events) /\ Len(progressChan) <= StreamCap
    /\ streamClosed \in BOOLEAN
    /\ hpc \in {"initial", "loop", "closing", "sending", "returned"}
    /\ final \in {"none"} \union Ended
    /\ connected \in BOOLEAN /\ received \in Seq(Events)
    /\ verdict \in {"none"} \union Ended

\* No goroutine sends on progressChan after the handler closed it
\* (service.go:203): that panic would end the daemon with every job in it.
NoSendOnClosedStream == Alive

\* It takes a cancellation: without one the handler closes progressChan only
\* after the worker has sent its last event, in every interleaving of the
\* ticker, the two ways into the channel and a client that leaves.
PanicOnlyAfterCancel == ~Alive => jobCtxDone

\* The client is told that the package was installed only if
\* PackageService.InstallPackage returned nil, and of a failure or a
\* cancellation only if it failed or somebody cancelled.
VerdictTrue ==
    /\ verdict = "Completed" => errChan = "nil"
    /\ verdict = "Failed" => errChan = "error"
    /\ verdict = "Cancelled" => jobCtxDone

\* What the two properties above rest on: a status that says the job has
\* ended is the worker's last word about a result that is in errChan, or the
\* context is canceled; the handler's tick reads such a status, and only then
\* does the handler close the stream and send what it has read.
EndIsKnown ==
    /\ cancelPc # "none" \/ jobStatus = "Cancelled" => jobCtxDone
    /\ jobStatus = "Completed" => jobPc = "done" /\ errChan = "nil"
    /\ jobStatus = "Failed" => jobPc = "done" /\ errChan = "error"
    /\ jobPc = "succeeded" => errChan = "nil"
    /\ jobPc = "failed" => errChan = "error" \/ jobCtxDone
    /\ hpc \in {"closing", "sending"} => final # "none"
    /\ streamClosed => final # "none"
    /\ final = "Completed" => jobPc = "done" /\ errChan = "nil"
    /\ final = "Failed" => jobPc = "done" /\ errChan = "error"
    /\ final = "Cancelled" => jobCtxDone

StreamInv == StreamTypeOK /\ EndIsKnown /\ PanicOnlyAfterCancel /\ VerdictTrue

\* The worker comes back to its queue for the next job if nobody cancels and
\* the client stays: neither full channel blocks it for good.
WorkerReleased == <>(jobPc = "done" \/ jobCtxDone \/ ~connected)

\* A client that stays hears how its installation ended, unless the daemon
\* dies first: the handler closes progressChan before it sends its last event
\* (service.go:177-189), and a worker caught there after a cancellation takes
\* the process with it (PanicOnlyAfterCancel).
ClientHearsVerdict == <>(verdict # "none" \/ ~connected \/ ~Alive)

\* Refuted by TLC with MayCancelJob: a client that stays always hears a verdict.
StayingClientHears == <>(verdict # "none" \/ ~connected)

\* Both sides of an RPC come to an end: the worker is not left blocked on the stream,
\* and a client that stays hears the verdict of a daemon that lives.
BothSidesEnd == WorkerReleased /\ ClientHearsVerdict

=============================================================================
