------------------------------- MODULE Fetch -------------------------------
(***************************************************************************)
(* Downloading distfiles: HTTPDownloader and MirrorSelector                *)
(* (internal/fetch), called once per package by the ebuild executor and by *)
(* `grpm fetch`.                                                           *)
(*                                                                         *)
(* A download goes to <name>.partial, is resumed by its size, renamed to   *)
(* <name> and verified there; a file that fails is removed and the next    *)
(* URI is tried.  Several workers of a parallel emerge share one           *)
(* downloader and one DISTDIR, so files are inodes: a rename moves the     *)
(* file under the feet of a worker that still writes to it.                *)
(*                                                                         *)
(* A file is a sequence of Size blocks; block i of the published file is   *)
(* the number i, any other block is 0.  A checksum accepts exactly the     *)
(* published file.  Servers answer anything until they are healthy, and    *)
(* as HTTP prescribes from then on.                                        *)
(***************************************************************************)
EXTENDS Integers, Sequences, FiniteSets

CONSTANTS
    Workers,
    Files,          \* the distfiles of a Fetch call, in order
    Size,           \* blocks of a distfile, as the Manifest gives it
    Mirrors,        \* GENTOO_MIRRORS
    SrcURIs,        \* SRC_URI locations, in order
    BaseOf,         \* URI -> ExtractMirrorBase of it, as a key of the stats
    NoMirror,       \* the base of a URI that is not a key
    Resume, MaxRetries,
    ErrBody,        \* blocks of the body of a 416 answer
    JunkSizes,      \* lengths of other content that servers may send
    MayCancel, MayCrash,
    MaxFetches,       \* bound: Fetch calls before the servers are healthy
    ScoreCap        \* bound: scores saturate at -ScoreCap and ScoreCap

ASSUME SizeAssumption == Size \in Nat \ {0} /\ ErrBody \in Nat /\ JunkSizes \subseteq Nat
ASSUME FilesAssumption == Files \in Seq({Files[i] : i \in DOMAIN Files})
ASSUME RetriesAssumption == MaxRetries \in Nat \ {0} /\ MaxFetches \in Nat /\ ScoreCap \in Nat
ASSUME URIAssumption ==
    /\ Mirrors # {} /\ NoMirror \notin Mirrors
    /\ \A u \in Mirrors \cup {SrcURIs[i] : i \in DOMAIN SrcURIs} :
          BaseOf[u] \in Mirrors \cup {NoMirror}

VARIABLES
    inode,          \* inode -> its blocks
    dest, part,     \* distfile -> the inode of <name> and of <name>.partial
    call,           \* worker -> its Fetch call (a record, see Idle)
    score,          \* mirror -> MirrorStats.Score()
    healthy,        \* do the servers behave?
    calls

vars == <<inode, dest, part, call, score, healthy, calls>>

Names == {Files[i] : i \in DOMAIN Files}
None == 0
Inodes == 1..(2 * Cardinality(Names) + Cardinality(Workers))

Good == [i \in 1..Size |-> i]
Junk(n) == [i \in 1..n |-> 0]

Content(i) == IF i = None THEN <<-1>> ELSE inode[i]
\* Verify: a missing file does not verify either.
Verified(f) == Content(dest[f]) = Good

NoFetch == [pc |-> "idle", k |-> 1, uris |-> <<>>, attempt |-> 0, have |-> 0, status |-> 0,
         body |-> <<>>, fd |-> None, done |-> FALSE, res |-> "none"]

Init ==
    /\ inode = [i \in Inodes |-> <<>>]
    /\ dest = [f \in Names |-> None] /\ part = [f \in Names |-> None]
    /\ call = [w \in Workers |-> NoFetch]
    /\ score = [m \in Mirrors |-> 0]
    /\ healthy = FALSE /\ calls = 0

-----------------------------------------------------------------------------
(* Helpers *)

File(w) == Files[call[w].k]
URI(w) == Head(call[w].uris)

\* The link counts of inodes: an inode without a name and without a
\* descriptor is freed.
InUse(d, p, c) == {d[f] : f \in Names} \cup {p[f] : f \in Names} \cup {c[w].fd : w \in Workers}
Freed(i, d, p, c) == [x \in Inodes |-> IF x \in InUse(d, p, c) THEN i[x] ELSE <<>>]
FreshInode == CHOOSE x \in Inodes : x \notin InUse(dest, part, call)

\* write(2) at an offset; a gap is filled with zeros.
WriteAt(s, pos, b) ==
    [i \in 1..(IF pos + 1 > Len(s) THEN pos + 1 ELSE Len(s)) |->
        IF i = pos + 1 THEN b ELSE IF i <= Len(s) THEN s[i] ELSE 0]

Saturate(n) == IF n > ScoreCap THEN ScoreCap ELSE IF n < -ScoreCap THEN -ScoreCap ELSE n
\* ReportSuccess and ReportFailure ignore a base that is no configured mirror.
ReportSuccess(u) == [m \in Mirrors |-> IF m = BaseOf[u] THEN Saturate(score[m] + 1) ELSE score[m]]
ReportFailure(u) == [m \in Mirrors |-> IF m = BaseOf[u] THEN Saturate(score[m] - 2) ELSE score[m]]

\* GetMirrors: best score first; sort.Slice leaves the order of ties open.
MirrorOrders ==
    {s \in [1..Cardinality(Mirrors) -> Mirrors] :
        \A i, j \in DOMAIN s : i < j => s[i] # s[j] /\ score[s[i]] >= score[s[j]]}
URILists == {s \o SrcURIs : s \in MirrorOrders}

\* downloadWithRetry after a failed attempt: try again, or give the URI up,
\* at once when the context has ended.
GivesUp(w) == call[w].attempt + 1 >= MaxRetries \/ call[w].done
AttemptFailed(w) ==
    LET c == [call[w] EXCEPT !.fd = None, !.body = <<>>, !.have = 0, !.status = 0] IN
    IF GivesUp(w)
    THEN /\ call' = [call EXCEPT ![w] = [c EXCEPT !.pc = "uri", !.uris = Tail(@), !.attempt = 0]]
         /\ score' = ReportFailure(URI(w))
    ELSE /\ call' = [call EXCEPT ![w] = [c EXCEPT !.pc = "stat", !.attempt = @ + 1]]
         /\ UNCHANGED score

Return(w, r) == call' = [call EXCEPT ![w] = [NoFetch EXCEPT !.res = r]]

-----------------------------------------------------------------------------
(* Fetch and FetchOne *)

\* A package reaches its fetch step, or `grpm fetch` is run.
Fetch(w) ==
    /\ call[w].pc = "idle"
    /\ healthy \/ calls < MaxFetches
    /\ call' = [call EXCEPT ![w] = [NoFetch EXCEPT !.pc = "fetch"]]
    /\ calls' = IF healthy THEN calls ELSE calls + 1
    /\ UNCHANGED <<inode, dest, part, score, healthy>>

\* The top of the loop of Fetch, with the beginning of FetchOne: a file that
\* is there and verifies is not downloaded again.
FetchReturns(w) ==
    /\ call[w].pc = "fetch"
    /\ call[w].k > Len(Files) \/ call[w].done
    /\ Return(w, IF call[w].k > Len(Files) THEN "nil" ELSE "error")
    /\ UNCHANGED <<inode, dest, part, score, healthy, calls>>

FetchOneSkips(w) ==
    /\ call[w].pc = "fetch" /\ call[w].k <= Len(Files) /\ ~call[w].done
    /\ Verified(File(w))
    /\ call' = [call EXCEPT ![w].k = @ + 1]
    /\ UNCHANGED <<inode, dest, part, score, healthy, calls>>

\* Mutant: a distfile that is there and verifies is downloaded again.
FetchOne_Always(w) ==
    /\ call[w].pc = "fetch" /\ call[w].k <= Len(Files) /\ ~call[w].done
    /\ \E uris \in URILists :
          call' = [call EXCEPT ![w].pc = "uri", ![w].uris = uris]
    /\ UNCHANGED <<inode, dest, part, score, healthy, calls>>

FetchOne(w) ==
    /\ call[w].pc = "fetch" /\ call[w].k <= Len(Files) /\ ~call[w].done
    /\ ~Verified(File(w))
    /\ \E uris \in URILists :
          call' = [call EXCEPT ![w].pc = "uri", ![w].uris = uris]
    /\ UNCHANGED <<inode, dest, part, score, healthy, calls>>

\* The top of the loop over URIs.  An empty list, or a context that has
\* ended, ends the whole call: Fetch stops at the first file that fails.
TryURI(w) ==
    /\ call[w].pc = "uri"
    /\ IF call[w].uris = <<>> \/ call[w].done
       THEN Return(w, "error")
       ELSE call' = [call EXCEPT ![w].pc = "stat", ![w].attempt = 0]
    /\ UNCHANGED <<inode, dest, part, score, healthy, calls>>

-----------------------------------------------------------------------------
(* download *)

GetExistingSize(w) ==
    /\ call[w].pc = "stat"
    /\ LET p == part[File(w)] IN
       call' = [call EXCEPT ![w].pc = "request",
                            ![w].have = IF Resume /\ p # None THEN Len(inode[p]) ELSE 0]
    /\ UNCHANGED <<inode, dest, part, score, healthy, calls>>

\* What a server may answer to a request with "Range: bytes=have-" (or
\* without Range when nothing is there); status 0 is a network error.
HonestAnswers(have) ==
    {[status |-> 200, body |-> Good]} \cup
    (IF have = 0 THEN {}
     ELSE IF have < Size THEN {[status |-> 206, body |-> SubSeq(Good, have + 1, Size)]}
     ELSE {[status |-> 416, body |-> Junk(ErrBody)]})
OtherAnswers(have) ==
    {[status |-> s, body |-> <<>>] : s \in {0, 404, 500}} \cup
    {[status |-> s, body |-> Junk(n)] : s \in {200} \cup (IF have > 0 THEN {206} ELSE {}), n \in JunkSizes}
Answers(have) == HonestAnswers(have) \cup (IF healthy THEN {} ELSE OtherAnswers(have))

\* Mutant: 416 is an error like any other.
Accepted_No416 == {200, 206}

\* handleResponseStatus: what is kept of the partial file.  Only 206 keeps
\* it; 416 is taken for an answer with the whole file, like 200.
Accepted == {200, 206, 416}
Kept(a, have) == IF a.status = 206 THEN have ELSE 0

ExecuteRequest(w) ==
    /\ call[w].pc = "request"
    /\ \/ /\ \E a \in Answers(call[w].have) :
             IF a.status \in Accepted
             THEN /\ call' = [call EXCEPT ![w].pc = "open", ![w].status = a.status,
                                          ![w].have = Kept(a, @), ![w].body = a.body]
                  /\ UNCHANGED score
             ELSE AttemptFailed(w)
       \/ call[w].done /\ AttemptFailed(w)
    /\ UNCHANGED <<inode, dest, part, healthy, calls>>

\* openOutputFile: append to the partial file, or create or truncate it.
OpenOutputFile(w) ==
    /\ call[w].pc = "open"
    /\ LET f == File(w)
           append == call[w].have > 0 /\ call[w].status = 206
           fd == IF part[f] = None THEN FreshInode ELSE part[f]
       IN  IF append /\ part[f] = None
           THEN AttemptFailed(w) /\ UNCHANGED <<inode, part>>
           ELSE /\ inode' = IF append THEN inode ELSE [inode EXCEPT ![fd] = <<>>]
                /\ part' = [part EXCEPT ![f] = fd]
                /\ call' = [call EXCEPT ![w].pc = "copy", ![w].fd = fd]
                /\ UNCHANGED score
    /\ UNCHANGED <<dest, healthy, calls>>

\* copyWithProgress: one Read and one Write.  have counts the blocks written,
\* and is the offset unless the file was opened for appending.
CopyBlock(w) ==
    /\ call[w].pc = "copy" /\ ~call[w].done /\ call[w].body # <<>>
    /\ LET c == call[w]
           pos == IF c.status = 206 THEN Len(inode[c.fd]) ELSE c.have
       IN  /\ inode' = [inode EXCEPT ![c.fd] = WriteAt(@, pos, Head(c.body))]
           /\ call' = [call EXCEPT ![w].body = Tail(@), ![w].have = @ + 1]
    /\ UNCHANGED <<dest, part, score, healthy, calls>>

\* The end of the body: close, and the size check.  A file of another size
\* stays behind as the partial file.
CopyEOF(w) ==
    /\ call[w].pc = "copy" /\ ~call[w].done /\ call[w].body = <<>>
    /\ IF call[w].have = Size
       THEN call' = [call EXCEPT ![w].pc = "rename", ![w].fd = None] /\ UNCHANGED score
       ELSE AttemptFailed(w)
    /\ inode' = Freed(inode, dest, part, call')
    /\ UNCHANGED <<dest, part, healthy, calls>>

\* The connection breaks or the client's time-out expires, or the context
\* has ended.
CopyFails(w) ==
    /\ call[w].pc = "copy"
    /\ ~healthy \/ call[w].done
    /\ AttemptFailed(w)
    /\ inode' = Freed(inode, dest, part, call')
    /\ UNCHANGED <<dest, part, healthy, calls>>

Rename(w) ==
    /\ call[w].pc = "rename"
    /\ LET f == File(w) IN
       IF part[f] = None
       THEN AttemptFailed(w) /\ UNCHANGED <<inode, dest, part>>
       ELSE /\ dest' = [dest EXCEPT ![f] = part[f]]
            /\ part' = [part EXCEPT ![f] = None]
            /\ call' = [call EXCEPT ![w].pc = "verify"]
            /\ inode' = Freed(inode, dest', part', call')
            /\ UNCHANGED score
    /\ UNCHANGED <<healthy, calls>>

\* FetchOne after downloadWithRetry has succeeded.
VerifyDownload(w) ==
    /\ call[w].pc = "verify"
    /\ IF Verified(File(w))
       THEN /\ score' = ReportSuccess(URI(w))
            /\ call' = [call EXCEPT ![w].pc = "fetch", ![w].k = @ + 1, ![w].uris = <<>>,
                                    ![w].have = 0, ![w].status = 0, ![w].attempt = 0]
       ELSE /\ call' = [call EXCEPT ![w].pc = "remove"]
            /\ UNCHANGED score
    /\ UNCHANGED <<inode, dest, part, healthy, calls>>

RemoveCorrupt(w) ==
    /\ call[w].pc = "remove"
    /\ dest' = [dest EXCEPT ![File(w)] = None]
    /\ score' = ReportFailure(URI(w))
    /\ call' = [call EXCEPT ![w].pc = "uri", ![w].uris = Tail(@), ![w].attempt = 0,
                            ![w].have = 0, ![w].status = 0]
    /\ inode' = Freed(inode, dest', part, call')
    /\ UNCHANGED <<part, healthy, calls>>

-----------------------------------------------------------------------------
(* The environment *)

ContextEnds(w) ==
    /\ MayCancel /\ ~healthy /\ call[w].pc # "idle" /\ ~call[w].done
    /\ call' = [call EXCEPT ![w].done = TRUE]
    /\ UNCHANGED <<inode, dest, part, score, healthy, calls>>

\* The process is killed: the files stay, everything else is gone.
Crash ==
    /\ MayCrash /\ ~healthy
    /\ \E w \in Workers : call[w].pc # "idle"
    /\ call' = [w \in Workers |-> NoFetch]
    /\ score' = [m \in Mirrors |-> 0]
    /\ inode' = Freed(inode, dest, part, call')
    /\ UNCHANGED <<dest, part, healthy, calls>>

ServersRecover ==
    /\ ~healthy /\ healthy' = TRUE
    /\ UNCHANGED <<inode, dest, part, call, score, calls>>

Step(w) ==
    \/ FetchReturns(w) \/ FetchOneSkips(w) \/ FetchOne(w) \/ TryURI(w)
    \/ GetExistingSize(w) \/ ExecuteRequest(w) \/ OpenOutputFile(w)
    \/ CopyBlock(w) \/ CopyEOF(w) \/ CopyFails(w) \/ Rename(w)
    \/ VerifyDownload(w) \/ RemoveCorrupt(w)

Next ==
    \/ \E w \in Workers : Fetch(w) \/ Step(w) \/ ContextEnds(w)
    \/ Crash \/ ServersRecover

Spec == Init /\ [][Next]_vars

\* A call under way goes on (requests time out), and the package is fetched
\* again as long as its fetch fails.
FairSpec ==
    /\ Spec
    /\ \A w \in Workers : WF_vars(Step(w)) /\ WF_vars(Fetch(w))

-----------------------------------------------------------------------------
(* Properties *)

TypeOK ==
    /\ \A i \in Inodes : \A b \in DOMAIN inode[i] : inode[i][b] \in 0..Size
    /\ dest \in [Names -> Inodes \cup {None}] /\ part \in [Names -> Inodes \cup {None}]
    /\ \A w \in Workers :
          /\ call[w].fd \in Inodes \cup {None} /\ (call[w].pc = "copy" <=> call[w].fd # None)
          /\ call[w].attempt \in 0..(MaxRetries - 1)
          /\ call[w].pc \notin {"idle", "fetch", "uri"} => call[w].uris # <<>>
    /\ score \in [Mirrors -> -ScoreCap..ScoreCap]

\* A Fetch that has returned nil leaves every distfile of the package
\* complete under its final name, whatever the mirrors sent, an earlier
\* process left behind or another call has done since.
NilMeansVerified ==
    \A w \in Workers : call[w].res = "nil" => \A f \in Names : Verified(f)

\* A verified distfile is never damaged, replaced or removed again: what one
\* call has fetched, a later or a concurrent one only reads.
VerifiedKept == [][\A f \in Names : Verified(f) => Verified(f)']_vars

\* A Fetch that has returned nil leaves verified files, and verified files stay.
VerifiedForGood == []NilMeansVerified /\ VerifiedKept

\* Once the servers behave, repeated calls get all the files, whatever
\* partial files, wrong mirrors, error pages and crashes came before.
Recovers == healthy ~> \A f \in Names : Verified(f)

\* Documented in FetchOne: "4. Verify checksum after download  5. Rename
\* temporary file to final name on success".
FinalNameOnlyVerified == \A f \in Names : dest[f] # None => Verified(f)
=============================================================================
