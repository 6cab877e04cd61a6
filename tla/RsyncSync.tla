------------------------------ MODULE RsyncSync ------------------------------
(***************************************************************************)
(* Synchronising a repository with the native rsync client:                *)
(* internal/sync/rsync.go (mirrors, retries, fallback to the rsync binary) *)
(* around internal/rsync/client.go (one transfer, whose generator and      *)
(* receiver are two goroutines that share a bounded flow control channel). *)
(*                                                                         *)
(* The tree is a set of names.  The content of a name is the number of the *)
(* mirror it came from, Old for what was there before, Dir for a directory *)
(* in its place, or None.  An error is reduced to what the retry logic      *)
(* tells apart by its text: "conn" (worth a retry), "disk" (permanent for  *)
(* all mirrors), "other", and "ctx" for the error of a canceled context.   *)
(***************************************************************************)
EXTENDS Integers, Sequences, FiniteSets, SequencesExt

CONSTANTS
    Names,            \* paths of regular files below the repository
    Mirrors,          \* the number of mirrors, after buildMirrorList has cut the list
    Listing,          \* Listing[m]: what mirror m has, a sequence of names
    Before,           \* the trees that a synchronisation may find
    MaxRetries,       \* SyncStrategy.MaxRetries
    MaxOutstanding,   \* maxOutstanding: slots of the flow control channel
    SocketCap,        \* messages the network holds in either direction
    SystemRsync,      \* the answers of hasSystemRsync to consider
    MaxFaults         \* bound: connections dropped, requests left unanswered,
                      \* failing file operations and kills, together

Old == 0
None == -1
Dir == -2
Contents == -2..Mirrors

ASSUME ConstantsOK ==
    /\ Mirrors \in Nat \ {0} /\ MaxRetries \in Nat \ {0} /\ MaxOutstanding \in Nat \ {0} /\ SocketCap \in Nat \ {0}
    /\ Listing \in [1..Mirrors -> Seq(Names)] /\ Before \subseteq [Names -> Contents]
    /\ {"done", "end"} \cap Names = {}
    /\ SystemRsync \subseteq BOOLEAN /\ MaxFaults \in Nat

VARIABLES
    tree,       \* content of each name
    tmps,       \* names beside which a temporary file lies
    pc,         \* where Sync and runProtocol are
    mirror, attempt,
    err,        \* the error of the last step that failed, "nil" at first
    result,     \* what RsyncSyncer.Sync returned, "none" while it runs
    files,      \* the file list received, by the client or by the rsync binary
    gen,        \* the generator: [pc, next]
    recv,       \* the receiver: [pc, cur, phase]
    slots,      \* elements in flowControl
    errs,       \* errChan, in the order of arrival
    conn,       \* "open", "reset" by the mirror or "closed" by the client
    req, resp,  \* messages under way to and from the mirror
    ctxDone,
    system,     \* whether the rsync binary is installed
    skipped,    \* names of this transfer that the mirror left unanswered
    unseen,     \* names that deleting could not read, with their temporary files
    faults      \* the number of faults so far

vars == <<tree, tmps, pc, mirror, attempt, err, result, files, gen, recv, slots, errs,
          conn, req, resp, ctxDone, system, skipped, unseen, faults>>
disk == <<tree, tmps>>
loop == <<mirror, attempt, result>>
workers == <<gen, recv, slots, errs>>
net == <<conn, req, resp>>
world == <<ctxDone, system, skipped, unseen, faults>>

NoGen == [pc |-> "idle", next |-> 1]
NoRecv == [pc |-> "idle", cur |-> "none", phase |-> 0]
Errors == {"nil", "conn", "disk", "other", "ctx"}

TypeOK ==
    /\ tree \in [Names -> Contents] /\ tmps \subseteq Names
    /\ pc \in {"mirrors", "attempts", "mirror_failed", "native", "list", "transfer", "delete",
               "protocol_done", "native_failed", "system", "done"}
    /\ mirror \in 1..(Mirrors + 1) /\ attempt \in 0..(MaxRetries + 1)
    /\ err \in Errors /\ result \in Errors \cup {"none"}
    /\ files \in Seq(Names) /\ slots \in 0..MaxOutstanding
    /\ gen \in [pc : {"idle", "acquire", "write", "done1", "done2", "ended"}, next : Nat \ {0}]
    /\ recv \in [pc : {"idle", "loop", "read", "data", "rename", "release", "ended"},
                 cur : Names \cup {"none"}, phase : {0, 1}]
    /\ errs \in Seq(Errors) /\ conn \in {"open", "reset", "closed"}
    /\ req \in Seq(Names \cup {"done"}) /\ resp \in Seq(Names \cup {"done", "end"})
    /\ ctxDone \in BOOLEAN /\ system \in BOOLEAN /\ skipped \subseteq Names /\ unseen \subseteq Names
    /\ faults \in 0..MaxFaults

Init ==
    /\ tree \in Before /\ tmps = {}
    /\ pc = "mirrors" /\ mirror = 1 /\ attempt = 0 /\ err = "nil" /\ result = "none"
    /\ files = <<>> /\ gen = NoGen /\ recv = NoRecv /\ slots = 0 /\ errs = <<>>
    /\ conn = "closed" /\ req = <<>> /\ resp = <<>> /\ skipped = {} /\ unseen = {}
    /\ ctxDone = FALSE /\ system \in SystemRsync /\ faults = 0

-----------------------------------------------------------------------------
(* Mirrors and retries: RsyncSyncer *)

isRetryableError(e) == e = "conn"
isPermanentError(e) == e = "disk"

Return(r) == pc' = "done" /\ result' = r /\ err' = r

\* The loop over the mirrors, and its end.
NextMirror ==
    /\ pc = "mirrors"
    /\ IF ctxDone THEN Return("ctx") /\ UNCHANGED <<mirror, attempt>>
       ELSE IF mirror > Mirrors THEN Return(err) /\ UNCHANGED <<mirror, attempt>>
       ELSE pc' = "attempts" /\ attempt' = 1 /\ UNCHANGED <<mirror, err, result>>
    /\ UNCHANGED <<disk, files, workers, net, world>>

\* syncWithRetry
NextAttempt ==
    /\ pc = "attempts"
    /\ IF ctxDone THEN pc' = "mirror_failed" /\ err' = "ctx"
       ELSE IF attempt > MaxRetries THEN pc' = "mirror_failed" /\ UNCHANGED err
       ELSE pc' = "native" /\ UNCHANGED err
    /\ UNCHANGED <<disk, loop, files, workers, net, world>>

MirrorFailed ==
    /\ pc = "mirror_failed"
    /\ IF isPermanentError(err) THEN Return(err) /\ UNCHANGED <<mirror, attempt>>
       ELSE pc' = "mirrors" /\ mirror' = mirror + 1 /\ UNCHANGED <<attempt, err, result>>
    /\ UNCHANGED <<disk, files, workers, net, world>>

AttemptFailed(e) ==
    /\ err' = e /\ UNCHANGED <<mirror, result>>
    /\ IF isRetryableError(e) THEN pc' = "attempts" /\ attempt' = attempt + 1
       ELSE pc' = "mirror_failed" /\ UNCHANGED attempt

\* doSync after its native attempt: the rsync binary, if there is one, with a
\* file list of its own.  A canceled context does not start it.
NativeFailed ==
    /\ pc = "native_failed"
    /\ \/ /\ system /\ ~ctxDone /\ pc' = "system" /\ files' = Listing[mirror]
          /\ skipped' = {} /\ unseen' = {} /\ UNCHANGED <<loop, err>>
       \/ /\ system /\ ctxDone /\ AttemptFailed("other")
          /\ UNCHANGED <<files, skipped, unseen>>
       \/ ~system /\ AttemptFailed(err) /\ UNCHANGED <<files, skipped, unseen>>
    /\ UNCHANGED <<disk, workers, net, ctxDone, system, faults>>

Mirrored(m, n) == n \in Range(Listing[m])

\* What is there and not in the list.
Extraneous == {n \in Names \ Range(files) : tree[n] # None}

\* doSyncSystem, one path at a time.  With --delete rsync removes what is not
\* in its list, and directories in the place of files, while it transfers;
\* each file is put in place whole.  It may fail after any of this, and leaves
\* a temporary file behind when the canceled context kills it; its error is an
\* exit status or a signal, which no pattern of the retry logic matches.
SystemSync ==
    /\ pc = "system"
    /\ \/ /\ ~ctxDone
          /\ \/ \E n \in Extraneous \cup {k \in Range(files) : tree[k] = Dir} :
                   tree' = [tree EXCEPT ![n] = None] /\ UNCHANGED tmps
             \/ \E n \in {k \in Range(files) : tree[k] \notin {mirror, Dir}} :
                   tree' = [tree EXCEPT ![n] = mirror] /\ UNCHANGED tmps
             \/ \E n \in tmps : tmps' = tmps \ {n} /\ UNCHANGED tree
          /\ UNCHANGED <<pc, err, loop>>
       \/ /\ Extraneous = {} /\ tmps = {} /\ \A n \in Range(files) : tree[n] = mirror
          /\ Return("nil") /\ UNCHANGED <<disk, mirror, attempt>>
       \/ /\ \/ UNCHANGED tmps
             \/ ctxDone /\ \E n \in Range(files) : tmps' = tmps \cup {n}
          /\ AttemptFailed("other") /\ UNCHANGED tree
    /\ UNCHANGED <<files, workers, net, world>>

-----------------------------------------------------------------------------
(* One transfer: Client.Sync and runProtocol *)

EndProtocol(e) == pc' = "protocol_done" /\ err' = e

\* One of the things that may go wrong goes wrong.
Fault == faults < MaxFaults /\ faults' = faults + 1

\* The goroutines, their channels and the connection are gone with the call.
NoWorkers ==
    /\ gen' = NoGen /\ recv' = NoRecv /\ slots' = 0 /\ errs' = <<>>
    /\ req' = <<>> /\ resp' = <<>>

\* The variables of a transfer that has not begun.
NoTransfer == files' = <<>> /\ NoWorkers /\ skipped' = {} /\ unseen' = {}

\* DialContext
Connect ==
    /\ pc = "native"
    /\ \/ ~ctxDone /\ pc' = "list" /\ conn' = "open" /\ UNCHANGED <<err, faults>>
       \/ ctxDone /\ pc' = "native_failed" /\ err' = "other" /\ UNCHANGED <<conn, faults>>
       \/ /\ Fault
          /\ \E e \in {"conn", "other"} : err' = e
          /\ pc' = "native_failed" /\ UNCHANGED conn
    /\ NoTransfer
    /\ UNCHANGED <<disk, loop, ctxDone, system>>

\* The select of Sync: a canceled context closes the connection.
CloseOnCancel ==
    /\ ctxDone /\ conn # "closed" /\ pc \in {"list", "transfer", "delete"}
    /\ conn' = "closed"
    /\ UNCHANGED <<disk, pc, err, loop, files, workers, req, resp, world>>

\* The file lists with some entries of L left out: a mirror omits what it
\* cannot read.
Parts(L) ==
    {[i \in DOMAIN p |-> L[p[i]]] :
        p \in {q \in UNION {[1..n -> 1..Len(L)] : n \in 0..Len(L)} :
                 \A i, j \in DOMAIN q : i < j => q[i] < q[j]}}

\* Greeting, module, arguments, filter list and file list, whose error flag
\* is only logged, then the directories and symbolic links, and the two goroutines are started.
ReceiveList ==
    /\ pc = "list"
    /\ \/ /\ conn = "open"
          /\ files' \in Parts(Listing[mirror])
          /\ pc' = "transfer" /\ UNCHANGED <<err, faults>>
          /\ gen' = [NoGen EXCEPT !.pc = "acquire"] /\ recv' = [NoRecv EXCEPT !.pc = "loop"]
       \/ /\ conn # "open" /\ EndProtocol(IF conn = "reset" THEN "conn" ELSE "other")
          /\ UNCHANGED <<files, gen, recv, faults>>
       \/ /\ Fault
          /\ \E e \in {"disk", "other"} : EndProtocol(e)
          /\ UNCHANGED <<files, gen, recv>>
    /\ UNCHANGED <<disk, loop, slots, errs, net, ctxDone, system, skipped, unseen>>

\* Mutant: the last result decides.
Collect_Last ==
    /\ pc = "transfer" /\ Len(errs) = 2
    /\ IF errs[2] = "nil" THEN pc' = "delete" /\ UNCHANGED err ELSE EndProtocol(errs[2])
    /\ UNCHANGED <<disk, loop, files, workers, net, world>>

\* receiveFiles after both results, then the statistics and the goodbye,
\* whose errors are ignored.
Collect ==
    /\ pc = "transfer" /\ Len(errs) = 2
    /\ LET firstErr == IF errs[1] # "nil" THEN errs[1] ELSE errs[2]
       IN IF firstErr = "nil" THEN pc' = "delete" /\ UNCHANGED err ELSE EndProtocol(firstErr)
    /\ UNCHANGED <<disk, loop, files, workers, net, world>>

\* deleteExtraneous, one path at a time.  What the walk cannot read, it passes
\* over without an error; an error of a removal ends it.
DeleteExtraneous ==
    /\ pc = "delete"
    /\ \/ /\ \E n \in Extraneous \ unseen : tree' = [tree EXCEPT ![n] = None]
          /\ UNCHANGED <<tmps, pc, err, unseen, faults>>
       \/ /\ \E n \in tmps \ unseen : tmps' = tmps \ {n}
          /\ UNCHANGED <<tree, pc, err, unseen, faults>>
       \/ /\ Fault
          /\ \E n \in Names : unseen' = unseen \cup {n}
          /\ UNCHANGED <<disk, pc, err>>
       \/ /\ Fault
          /\ \E e \in {"disk", "other"} : EndProtocol(e)
          /\ UNCHANGED <<disk, unseen>>
       \/ /\ Extraneous \cup tmps \subseteq unseen
          /\ EndProtocol("nil") /\ UNCHANGED <<disk, unseen, faults>>
    /\ UNCHANGED <<loop, files, workers, net, ctxDone, system, skipped>>

\* Sync takes the result, or the canceled context if that is ready as well.
SyncReturns ==
    /\ pc = "protocol_done"
    /\ \E e \in (IF ctxDone THEN {"ctx"} ELSE {}) \cup (IF ctxDone /\ conn = "closed" THEN {} ELSE {err}) :
          IF e = "nil" THEN Return("nil") /\ UNCHANGED <<mirror, attempt>>
          ELSE pc' = "native_failed" /\ err' = e /\ UNCHANGED loop
    /\ conn' = "closed" /\ NoWorkers
    /\ UNCHANGED <<disk, files, world>>

-----------------------------------------------------------------------------
(* runGenerator *)

GenEnd(e) == gen' = [gen EXCEPT !.pc = "ended"] /\ errs' = Append(errs, e)

\* A slot for the next request, unless the context ends.
GenAcquire ==
    /\ gen.pc = "acquire"
    /\ IF gen.next > Len(files)
       THEN gen' = [gen EXCEPT !.pc = "done1"] /\ UNCHANGED <<slots, errs>>
       ELSE \/ ctxDone /\ GenEnd("ctx") /\ UNCHANGED slots
            \/ /\ slots < MaxOutstanding /\ slots' = slots + 1
               /\ gen' = [gen EXCEPT !.pc = "write"] /\ UNCHANGED errs
    /\ UNCHANGED <<disk, pc, err, loop, files, recv, net, world>>

\* A write to the socket.  A mirror that has gone may still let it succeed.
GenWrite ==
    /\ gen.pc \in {"write", "done1", "done2"}
    /\ \/ /\ \/ conn = "open" /\ Len(req) < SocketCap
                /\ req' = Append(req, IF gen.pc = "write" THEN files[gen.next] ELSE "done")
             \/ conn = "reset" /\ UNCHANGED req
          /\ CASE gen.pc = "write" -> gen' = [pc |-> "acquire", next |-> gen.next + 1] /\ UNCHANGED errs
               [] gen.pc = "done1" -> gen' = [gen EXCEPT !.pc = "done2"] /\ UNCHANGED errs
               [] OTHER -> GenEnd("nil")
       \/ conn # "open" /\ GenEnd(IF conn = "reset" THEN "conn" ELSE "other") /\ UNCHANGED req
    /\ UNCHANGED <<disk, pc, err, loop, files, recv, slots, conn, resp, world>>

-----------------------------------------------------------------------------
(* runReceiver and receiveFile *)

RecvEnd(e) == recv' = [recv EXCEPT !.pc = "ended"] /\ errs' = Append(errs, e)

RecvLoop ==
    /\ recv.pc = "loop"
    /\ IF ctxDone THEN RecvEnd("ctx") ELSE recv' = [recv EXCEPT !.pc = "read"] /\ UNCHANGED errs
    /\ UNCHANGED <<disk, pc, err, loop, files, gen, slots, net, world>>

\* The index of a file, whose temporary file is then created, or NDX_DONE.
RecvIndex ==
    /\ recv.pc = "read" /\ conn # "closed" /\ resp # <<>>
    /\ resp' = Tail(resp)
    /\ IF Head(resp) = "done"
       THEN /\ IF recv.phase = 1 THEN RecvEnd("nil")
               ELSE recv' = [recv EXCEPT !.pc = "loop", !.phase = 1] /\ UNCHANGED errs
            /\ UNCHANGED tmps
       ELSE /\ recv' = [recv EXCEPT !.pc = "data", !.cur = Head(resp)]
            /\ tmps' = tmps \cup {Head(resp)} /\ UNCHANGED errs
    /\ UNCHANGED <<tree, pc, err, loop, files, gen, slots, conn, req, world>>

\* receiveUncompressedData: the tokens up to the end of the file.
RecvData ==
    /\ recv.pc = "data" /\ conn # "closed" /\ resp # <<>>
    /\ resp' = Tail(resp) /\ recv' = [recv EXCEPT !.pc = "rename"]
    /\ UNCHANGED <<disk, pc, err, loop, files, gen, slots, errs, conn, req, world>>

\* A read fails; the deferred function removes the temporary file.
\* Mutant: what has arrived is renamed as it is (-3: a torn file).
RecvFails_Renames ==
    /\ recv.pc \in {"read", "data"} /\ conn # "open"
    /\ RecvEnd(IF conn = "reset" THEN "conn" ELSE "other")
    /\ tmps' = tmps \ {recv.cur}
    /\ tree' = IF recv.pc = "data" THEN [tree EXCEPT ![recv.cur] = -3] ELSE tree
    /\ UNCHANGED <<pc, err, loop, files, gen, slots, net, world>>

RecvFails ==
    /\ recv.pc \in {"read", "data"} /\ conn # "open"
    /\ RecvEnd(IF conn = "reset" THEN "conn" ELSE "other")
    /\ tmps' = IF recv.pc = "data" THEN tmps \ {recv.cur} ELSE tmps
    /\ UNCHANGED <<tree, pc, err, loop, files, gen, slots, net, world>>

\* The rename replaces the file at once; it fails over a directory.
RecvRename ==
    /\ recv.pc = "rename"
    /\ tmps' = tmps \ {recv.cur}
    /\ \/ /\ tree[recv.cur] # Dir
          /\ tree' = [tree EXCEPT ![recv.cur] = mirror]
          /\ recv' = [recv EXCEPT !.pc = "release"] /\ UNCHANGED <<errs, faults>>
       \/ tree[recv.cur] = Dir /\ RecvEnd("other") /\ UNCHANGED <<tree, faults>>
       \/ Fault /\ RecvEnd("disk") /\ UNCHANGED tree
    /\ UNCHANGED <<pc, err, loop, files, gen, slots, net, ctxDone, system, skipped, unseen>>

\* Mutant: the slot is never released.
RecvRelease_Never ==
    /\ recv.pc = "release"
    /\ recv' = [recv EXCEPT !.pc = "loop"]
    /\ UNCHANGED <<disk, pc, err, loop, files, gen, slots, errs, net, world>>

RecvRelease ==
    /\ recv.pc = "release"
    /\ slots' = IF slots > 0 THEN slots - 1 ELSE 0
    /\ recv' = [recv EXCEPT !.pc = "loop"]
    /\ UNCHANGED <<disk, pc, err, loop, files, gen, errs, net, world>>

-----------------------------------------------------------------------------
(* The mirror, and what may happen to the process *)

\* An answer is the index of the file and its data; a file that the mirror can
\* no longer read is left out, with an error message that the client logs.
MirrorAnswers ==
    /\ pc = "transfer" /\ conn = "open" /\ req # <<>>
    /\ req' = Tail(req)
    /\ \/ /\ Len(resp) < SocketCap
          /\ resp' = resp \o IF Head(req) = "done" THEN <<"done">> ELSE <<Head(req), "end">>
          /\ UNCHANGED <<skipped, faults>>
       \/ /\ Head(req) # "done" /\ Fault
          /\ skipped' = skipped \cup {Head(req)} /\ UNCHANGED resp
    /\ UNCHANGED <<disk, pc, err, loop, files, workers, conn, ctxDone, system, unseen>>

MirrorResets ==
    /\ conn = "open" /\ Fault
    /\ conn' = "reset"
    /\ UNCHANGED <<disk, pc, err, loop, files, workers, req, resp, ctxDone, system, skipped, unseen>>

\* SIGINT or SIGTERM: signal.NotifyContext in runSync.
Interrupt ==
    /\ pc # "done" /\ ~ctxDone /\ ctxDone' = TRUE
    /\ UNCHANGED <<disk, pc, err, loop, files, workers, net, system, skipped, unseen, faults>>

\* A kill, and the next grpm sync.
Crash ==
    /\ pc # "done" /\ Fault
    /\ pc' = "mirrors" /\ mirror' = 1 /\ attempt' = 0 /\ err' = "nil" /\ result' = "none"
    /\ NoTransfer /\ conn' = "closed" /\ ctxDone' = FALSE
    /\ UNCHANGED <<disk, system>>

Syncer == NextMirror \/ NextAttempt \/ MirrorFailed \/ NativeFailed \/ SystemSync
Protocol == Connect \/ ReceiveList \/ Collect \/ DeleteExtraneous \/ SyncReturns
Generator == GenAcquire \/ GenWrite
Receiver == RecvLoop \/ RecvIndex \/ RecvData \/ RecvFails \/ RecvRename \/ RecvRelease

Done == pc = "done" /\ UNCHANGED vars

Next ==
    \/ Syncer \/ Protocol \/ CloseOnCancel \/ Generator \/ Receiver
    \/ MirrorAnswers \/ MirrorResets \/ Interrupt \/ Crash \/ Done

\* Goroutines are scheduled fairly, and a mirror that keeps its connection
\* answers.
Fairness ==
    /\ WF_vars(Syncer) /\ WF_vars(Protocol) /\ WF_vars(CloseOnCancel)
    /\ WF_vars(Generator) /\ WF_vars(Receiver) /\ WF_vars(MirrorAnswers)

Spec == Init /\ [][Next]_vars /\ Fairness

-----------------------------------------------------------------------------
(* Properties *)

\* Sync reports success only when the tree is the list of one mirror: each
\* file, unless the mirror left its request unanswered, has that mirror's
\* content, and nothing else is left, unless it could not be read, whatever
\* earlier attempts, other mirrors or killed processes had written (rsync.go,
\* client.go: Sync).
NilMeansMirrored ==
    result = "nil" =>
        /\ \A n \in Range(files) \ skipped : tree[n] = mirror
        /\ Extraneous \cup tmps \subseteq unseen

\* A name changes only to the whole file of the mirror in use.  It disappears
\* only if the list in use does not have it, and with the native client not
\* before every file of the list has arrived: a sync that fails, or is killed,
\* deletes nothing that it has not replaced.  The rsync binary deletes while it
\* transfers, and puts a file in the place of a directory in two steps.
ReplacedWholeDeletedLast ==
    [][\A n \in Names : tree'[n] # tree[n] =>
          \/ tree'[n] = mirror /\ n \in Range(files) /\ Mirrored(mirror, n)
          \/ /\ tree'[n] = None /\ n \notin Range(files)
             /\ pc = "system" \/ \A k \in Range(files) \ skipped : tree'[k] = mirror
          \/ tree'[n] = None /\ tree[n] = Dir /\ pc = "system"]_vars

\* Not true of the code: a success leaves nothing that the mirror's list does
\* not have.
NothingElseLeft == result = "nil" => Extraneous = {} /\ tmps = {}

\* Not true of the code: what the mirror in use has is never deleted.
MirroredKept ==
    [][\A n \in Names : tree'[n] = None /\ tree[n] \notin {None, Dir} => ~Mirrored(mirror, n)]_vars

\* Every slot is taken and nobody is left to release one: the receiver has
\* failed, or the mirror has left so many requests unanswered.
Starved ==
    /\ gen.pc = "acquire" /\ slots = MaxOutstanding
    /\ recv.pc = "ended" \/ Cardinality(skipped) >= MaxOutstanding

\* Sync returns, through every retry, mirror and fallback, unless the
\* generator is starved.
ReturnsUnlessStarved == <>(pc = "done" \/ Starved)

\* An interrupt ends Sync in every state, a starved generator included, unless
\* the process is killed.
InterruptReturns == ctxDone ~> (pc = "done" \/ ~ctxDone)

\* Sync returns: by itself unless the generator is starved, and after an interrupt
\* in any case (client.go, generator and receiver; rsync.go, retries and mirrors).
SyncEnds == ReturnsUnlessStarved /\ InterruptReturns

\* Not true of the code: Sync returns whenever the mirrors answer or close
\* the connection.
AlwaysReturns == <>(pc = "done")

-----------------------------------------------------------------------------
(* The inductive invariant. *)

\* Where the syncer is, what it has tried and what has failed.
LoopOK ==
    /\ result # "none" <=> pc = "done"
    /\ pc \notin {"mirrors", "done"} => mirror <= Mirrors
    /\ pc \notin {"mirrors", "attempts", "mirror_failed", "done"} => attempt <= MaxRetries
    /\ pc \in {"mirror_failed", "native_failed"} => err # "nil"
    /\ pc = "mirrors" /\ mirror > 1 => err # "nil"
    /\ pc = "attempts" /\ attempt > 1 => err # "nil"

\* The two goroutines run during the transfer only, and each leaves a result.
WorkersOK ==
    /\ pc # "transfer" => gen.pc \in {"idle", "ended"} /\ recv.pc \in {"idle", "ended"}
    /\ pc = "list" => errs = <<>> /\ req = <<>> /\ resp = <<>>
    /\ pc \in {"transfer", "system"} => Range(files) \subseteq Range(Listing[mirror])
    /\ pc = "transfer" =>
         /\ gen.pc # "idle" /\ recv.pc # "idle"
         /\ Len(errs) = (IF gen.pc = "ended" THEN 1 ELSE 0) + (IF recv.pc = "ended" THEN 1 ELSE 0)
         /\ recv.pc = "ended" /\ recv.phase = 0 => \E i \in 1..Len(errs) : errs[i] # "nil"
         /\ gen.next <= Len(files) + 1 /\ (gen.pc = "write" => gen.next <= Len(files))
         /\ gen.pc \in {"done1", "done2"} => gen.next = Len(files) + 1

\* The end of a file follows its index, and nothing else does.
Shaped(r, mid) ==
    /\ \A i \in 1..Len(r) : r[i] = "end" <=> (IF i = 1 THEN mid ELSE r[i - 1] \in Names)
    /\ \A i \in 1..Len(r) : r[i] \in Names => i < Len(r)
    /\ mid => r # <<>>

\* After NDX_DONE comes nothing but NDX_DONE.
DoneLast(r) == \A i, j \in 1..Len(r) : i < j /\ r[i] = "done" => r[j] = "done"

\* NDX_DONE is under way, or has arrived.
Sent == "done" \in Range(req) \cup Range(resp) \/ recv.phase = 1

StreamOK ==
    pc = "transfer" =>
        /\ Range(req) \cup Range(resp) \subseteq Range(files) \cup {"done", "end"}
        /\ recv.pc \in {"data", "rename"} => recv.cur \in Range(files)
        /\ recv.pc # "ended" => Shaped(resp, recv.pc = "data")
        /\ recv.pc \in {"data", "rename", "release"} => recv.phase = 0
        /\ DoneLast(req) /\ DoneLast(resp)
        /\ "done" \in Range(resp) => Range(req) \subseteq {"done"}
        /\ recv.phase = 1 => Range(resp) \cup Range(req) \subseteq {"done"}
        /\ Sent => gen.pc \in {"done2", "ended"} /\ gen.next = Len(files) + 1

\* A name that was asked for has arrived, or is on its way.
Accounted(n) ==
    \/ tree[n] = mirror \/ n \in skipped
    \/ n \in Range(req) \cup Range(resp)
    \/ recv.pc \in {"data", "rename"} /\ recv.cur = n

\* No request is lost while the connection holds, nor if it held until
\* NDX_DONE was sent.
NoneLost ==
    pc = "transfer" /\ (conn = "open" \/ Sent) /\ (recv.pc # "ended" \/ recv.phase = 1) =>
        \A i \in 1..(gen.next - 1) : Accounted(files[i])

\* Deleting begins when every file has arrived, and a success is a mirror.
EndOK ==
    /\ pc = "delete" => \A n \in Range(files) \ skipped : tree[n] = mirror
    /\ (pc = "protocol_done" /\ err = "nil") \/ result = "nil" =>
         /\ \A n \in Range(files) \ skipped : tree[n] = mirror
         /\ Extraneous \cup tmps \subseteq unseen

IndInv == TypeOK /\ LoopOK /\ WorkersOK /\ StreamOK /\ NoneLost /\ EndOK
=============================================================================
