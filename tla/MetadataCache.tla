--------------------------- MODULE MetadataCache ----------------------------
(***************************************************************************)
(* The caches over an ebuild repository (internal/cache, internal/repo/    *)
(* cache, internal/repo/cached_portage.go), for the versions of one        *)
(* package: the rows of the metadata cache (an SQLite table, or a map with *)
(* LRU order in memory), the index of versions, the packages parsed by     *)
(* this process, those that the repository below keeps itself and those it *)
(* finds in metadata/md5-cache, and the calls of several goroutines that   *)
(* read and fill them while the tree may change and processes end or are   *)
(* killed.                                                                 *)
(***************************************************************************)
EXTENDS Integers, Sequences, FiniteSets, SequencesExt, FiniteSetsExt

CONSTANTS
  Threads,        \* goroutines of the process
  NumVersions,    \* versions of the package: 1, 2, ...
  Backends,       \* "sqlite", "memory"
  MaxEntries,     \* capacity of the cache in memory
  Mtime,          \* of an ebuild's content: its time stamp <<second, fraction>>
  MaxCalls, MaxEdits, MaxProcesses

\* Version v has content v at first, and every edit makes a new one.
PkgVersions == 1 .. NumVersions
Contents == 1 .. (NumVersions + MaxEdits)

ASSUME SizesAssumption == NumVersions \in Nat /\ MaxEdits \in Nat /\ MaxEntries \in Nat
ASSUME BackendsAssumption == Backends \subseteq {"sqlite", "memory"}
\* An edit gives a time stamp that no other content has, and not exactly the beginning
\* of the second in which another was written.
ASSUME MtimeAssumption == \A c, d \in Contents : Mtime[d] \in {Mtime[c], <<Mtime[c][1], 0>>} => c = d

VARIABLES
  tree,      \* content of every ebuild, 0 where there is none
  md5,       \* metadata/md5-cache: the content every entry was generated from, 0 if none
  root,      \* mtime of the directory of the repository
  backend, running,
  rows,      \* metadata cache: version -> [content, mtime]
  order,     \* LRU order of the keys, oldest first
  index,     \* versions in the table packages
  repo_mtime,\* the row of the table meta, -1 if there is none
  parsed,    \* parsedPackage: contents that this process has parsed, 0 if not
  kept,      \* PortageRepository.cache: the same one level below
  th,        \* what every goroutine is doing
  served,    \* the package that was returned last, and the tree at that time
  hist       \* calls, edits and processes so far; see Init

cacheVars == <<tree, md5, root, backend, running, rows, order, index, repo_mtime, parsed, kept, th, served, hist>>

Present == {v \in PkgVersions : tree[v] # 0}
NoCall == [op |-> "none", pc |-> "idle", todo |-> {}, entry |-> 0, content |-> 0, mtime |-> <<0, 0>>,
           found |-> {}, any |-> FALSE, sure |-> FALSE]
NoneServed == [op |-> "none", version |-> 0, content |-> 0, whole |-> TRUE, now |-> 0, highest |-> 0, sure |-> FALSE]
Key(t) == Min(th[t].todo)

\* hist.quiet: the tree has only changed while no process was running.
\* hist.stale: versions whose entry in md5-cache has ever disagreed with their ebuild.
\* hist.bumped: every change of the tree so far has changed the mtime of its root.
\* hist.ensured: EnsureCache has returned in this process.
CacheInit ==
  /\ \E S \in SUBSET PkgVersions : tree = [v \in PkgVersions |-> IF v \in S THEN v ELSE 0] /\ S # {}
  /\ md5 \in [PkgVersions -> Contents \cup {0}] /\ \A v \in PkgVersions : md5[v] \in {0, tree[v]}
  /\ root = 0 /\ backend \in Backends /\ running = FALSE
  /\ rows = <<>> /\ order = <<>> /\ index = {} /\ repo_mtime = -1
  /\ parsed = [v \in PkgVersions |-> 0] /\ kept = [v \in PkgVersions |-> 0]
  /\ th = [t \in Threads |-> NoCall] /\ served = NoneServed
  /\ hist = [calls |-> 0, edits |-> 0, processes |-> 0, quiet |-> TRUE, bumped |-> TRUE, ensured |-> FALSE,
              stale |-> {}]

-----------------------------------------------------------------------------
(* Rows of the metadata cache *)

\* entries without the row of v, and with one more
WithoutRow(v) == Restrict(rows, DOMAIN rows \ {v})
WithRow(r, v, e) == [w \in DOMAIN r \cup {v} |-> IF w = v THEN e ELSE r[w]]
removeFromOrder(v) == RemoveFirst(order, v)
moveToEnd(v) == Append(removeFromOrder(v), v)

\* SQLite keeps whole seconds.
StoredMtime(m) == IF backend = "sqlite" THEN <<m[1], 0>> ELSE m

\* Put: a new key makes room first; the loop looks for a victim until there is
\* room, with the lock held, and so never ends when order has no victim left.
evictOldest(v, n) == [rows |-> Restrict(rows, DOMAIN rows \ Range(SubSeq(order, 1, n))),
                      order |-> Append(SubSeq(order, n + 1, Len(order)), v)]
Room(n) == Cardinality(DOMAIN rows \ Range(SubSeq(order, 1, n))) < MaxEntries
memoryPut(v, e) ==
  IF v \in DOMAIN rows THEN rows' = WithRow(rows, v, e) /\ order' = moveToEnd(v)
  ELSE \E n \in 0 .. Len(order) :
         /\ Room(n) /\ \A k \in 0 .. (n - 1) : ~Room(k)
         /\ rows' = WithRow(evictOldest(v, n).rows, v, e)
         /\ order' = evictOldest(v, n).order
sqlitePut(v, e) == rows' = WithRow(rows, v, e) /\ UNCHANGED order
PutRow(v, e) == IF backend = "sqlite" THEN sqlitePut(v, e) ELSE memoryPut(v, e)
\* Delete leaves order alone when there is no row.
memoryDelete(v) == rows' = WithoutRow(v) /\ order' = IF v \in DOMAIN rows THEN removeFromOrder(v) ELSE order
sqliteDelete(v) == rows' = WithoutRow(v) /\ UNCHANGED order
DeleteRow(v) == IF backend = "sqlite" THEN sqliteDelete(v) ELSE memoryDelete(v)
\* Invalidate with a time in the far future: every row of the package, and its first
\* place in the order.  Keys that are there without a row, or a second time, stay.
memoryInvalidate ==
  LET dropped == {i \in DOMAIN order : order[i] \in DOMAIN rows /\ \A j \in 1 .. (i - 1) : order[j] # order[i]}
      left == DOMAIN order \ dropped
  IN  /\ rows' = <<>>
      /\ \E pos \in [1 .. Cardinality(left) -> left] :
           /\ \A i, j \in DOMAIN pos : i < j => pos[i] < pos[j]
           /\ order' = [i \in DOMAIN pos |-> order[pos[i]]]
sqliteInvalidate == rows' = <<>> /\ UNCHANGED order
memoryInvalidateAll == rows' = <<>> /\ order' = <<>>
sqliteInvalidateAll == rows' = <<>> /\ UNCHANGED order

-----------------------------------------------------------------------------
(* LoadPackage and GetAllVersions *)

Goto(t, pc) == th' = [th EXCEPT ![t].pc = pc]
Idle(t) == th' = [th EXCEPT ![t] = NoCall]
Max0(S) == IF S = {} THEN 0 ELSE Max(S)
Serve(t, v, c, whole) ==
  served' = [op |-> th[t].op, version |-> v, content |-> c, whole |-> whole, now |-> tree[v],
             highest |-> Max0(Present), sure |-> th[t].sure]

\* The versions that a call goes through, in their order: the highest of the index,
\* or all.
LookupPackage == index
Call(t, op, todo) ==
  /\ running /\ th[t].pc = "idle" /\ hist.calls < MaxCalls
  /\ th' = [th EXCEPT ![t] = [NoCall EXCEPT !.op = op, !.sure = hist.ensured, !.todo = todo,
              !.pc = IF todo = {} THEN "base" ELSE "get"]]
  /\ hist' = [hist EXCEPT !.calls = @ + 1]
  /\ UNCHANGED <<tree, md5, root, backend, running, rows, order, index, repo_mtime, parsed, kept, served>>

LoadPackage(t) == Call(t, "LoadPackage", IF LookupPackage = {} THEN {} ELSE {Max(LookupPackage)})
GetAllVersions(t) == Call(t, "GetAllVersions", LookupPackage)

\* After one version: the next one, the end, or the repository without cache
\* when GetAllVersions has found nothing.
Advance(t, found) ==
  LET any == th[t].any \/ found
      rest == th[t].todo \ {Key(t)}
  IN  IF rest # {} THEN th' = [th EXCEPT ![t] = [NoCall EXCEPT !.op = th[t].op, !.pc = "get", !.todo = rest, !.any = any,
                                                   !.sure = th[t].sure]]
      ELSE IF any THEN Idle(t) ELSE Goto(t, "base")

\* The entry of the row.  In memory the lock is released before the key is
\* moved to the end of the order.
RowFound(t, next) ==
  IF Key(t) \in DOMAIN rows
  THEN th' = [th EXCEPT ![t].entry = rows[Key(t)].content, ![t].mtime = rows[Key(t)].mtime, ![t].pc = next]
  ELSE Goto(t, "parse")
sqliteGet(t) == backend = "sqlite" /\ RowFound(t, "stat")
memoryGet(t) == backend = "memory" /\ RowFound(t, "touch")
GetRow(t) ==
  /\ th[t].pc = "get"
  /\ sqliteGet(t) \/ memoryGet(t)
  /\ UNCHANGED <<tree, md5, root, backend, running, rows, order, index, repo_mtime, parsed, kept, served, hist>>
TouchRow(t) ==
  /\ th[t].pc = "touch"
  /\ order' = moveToEnd(Key(t))
  /\ Goto(t, "stat")
  /\ UNCHANGED <<tree, md5, root, backend, running, rows, index, repo_mtime, parsed, kept, served, hist>>

\* What is made of an entry has its slot and flags, every flag enabled, and no
\* dependencies.
entryToPackage(t) == Serve(t, Key(t), th[t].entry, FALSE)

\* An entry is valid if the ebuild is there with the same mtime.
\* Mutant: a time stamp that is newer by a second is good enough.
IsValid_Tolerant(t) == tree[Key(t)] # 0 /\ Mtime[tree[Key(t)]][1] <= th[t].mtime[1] + 1
IsValid(t) == tree[Key(t)] # 0 /\ th[t].mtime = Mtime[tree[Key(t)]]
CheckRow(t) ==
  /\ th[t].pc = "stat"
  /\ IF IsValid(t) THEN entryToPackage(t) /\ Advance(t, TRUE)
     ELSE Goto(t, "delete") /\ UNCHANGED served
  /\ UNCHANGED <<tree, md5, root, backend, running, rows, order, index, repo_mtime, parsed, kept, hist>>
DropRow(t) ==
  /\ th[t].pc = "delete"
  /\ DeleteRow(Key(t))
  /\ Goto(t, "parse")
  /\ UNCHANGED <<tree, md5, root, backend, running, index, repo_mtime, parsed, kept, served, hist>>

\* parseEbuild of PortageRepository: what it has parsed before, or else the entry of
\* md5-cache, neither compared with the ebuild, or else the ebuild.
repoParse(v) == IF kept[v] # 0 THEN kept[v] ELSE IF md5[v] # 0 THEN md5[v] ELSE tree[v]

\* parseEbuildCached: what this process has parsed before is not checked again.
\* When there is nothing to parse LoadPackage goes to the repository without cache,
\* and GetAllVersions tries once more and goes on.
ParseEbuild(t) ==
  LET v == Key(t)
      known == IF parsed[v] # 0 THEN parsed[v] ELSE repoParse(v)
      again == th[t].pc = "reparse"
  IN  /\ th[t].pc \in {"parse", "reparse"}
      /\ IF known = 0
         THEN (IF th[t].op = "LoadPackage" THEN Goto(t, "base") ELSE IF again THEN Advance(t, FALSE) ELSE Goto(t, "reparse"))
              /\ UNCHANGED <<parsed, kept, served>>
         ELSE /\ parsed' = [parsed EXCEPT ![v] = known]
              /\ kept' = IF parsed[v] # 0 THEN kept ELSE [kept EXCEPT ![v] = known]
              /\ IF again THEN Serve(t, v, known, TRUE) /\ Advance(t, TRUE)
                 ELSE th' = [th EXCEPT ![t].content = known, ![t].pc = "putstat"] /\ UNCHANGED served
      /\ UNCHANGED <<tree, md5, root, backend, running, rows, order, index, repo_mtime, hist>>

\* Put takes the mtime that the ebuild has now, whenever it was parsed.
StatForPut(t) ==
  LET v == Key(t)
  IN  /\ th[t].pc = "putstat"
      /\ IF tree[v] = 0 THEN Serve(t, v, th[t].content, TRUE) /\ Advance(t, TRUE)
         ELSE th' = [th EXCEPT ![t].mtime = StoredMtime(Mtime[tree[v]]), ![t].pc = "put"] /\ UNCHANGED served
      /\ UNCHANGED <<tree, md5, root, backend, running, rows, order, index, repo_mtime, parsed, kept, hist>>
packageToEntry(t) == [content |-> th[t].content, mtime |-> th[t].mtime]
CachePackage(t) ==
  /\ th[t].pc = "put"
  /\ PutRow(Key(t), packageToEntry(t))
  /\ Serve(t, Key(t), th[t].content, TRUE)
  /\ Advance(t, TRUE)
  /\ UNCHANGED <<tree, md5, root, backend, running, index, repo_mtime, parsed, kept, hist>>

\* PortageRepository reads the directory and parses the highest version, or all.
Loaded(t) == IF th[t].op = "GetAllVersions" THEN Present ELSE {v \in Present : v = Max(Present)}
LoadUncached(t) ==
  /\ th[t].pc = "base"
  /\ kept' = [v \in PkgVersions |-> IF v \in Loaded(t) THEN repoParse(v) ELSE kept[v]]
  /\ IF Present = {} THEN UNCHANGED served
     ELSE \E v \in Loaded(t) : Serve(t, v, repoParse(v), TRUE)
  /\ Idle(t)
  /\ UNCHANGED <<tree, md5, root, backend, running, rows, order, index, repo_mtime, parsed, hist>>

-----------------------------------------------------------------------------
(* EnsureCache, RebuildCache, InvalidateCache *)

Maintain(t, op, pc) ==
  /\ running /\ th[t].pc = "idle" /\ hist.calls < MaxCalls
  /\ th' = [th EXCEPT ![t] = [NoCall EXCEPT !.op = op, !.pc = pc]]
  /\ hist' = [hist EXCEPT !.calls = @ + 1]
  /\ UNCHANGED <<tree, md5, root, backend, running, rows, order, index, repo_mtime, parsed, kept, served>>

EnsureCache(t) == Maintain(t, "EnsureCache", "isvalid")
RebuildCache(t) == Maintain(t, "RebuildCache", "clear")
InvalidateCache(t) == Maintain(t, "InvalidateCache", "forget")
InvalidatePackage(t) == Maintain(t, "InvalidatePackage", "forgetpackage")

\* The index is valid if the mtime of the root is the one stored.
\* Mutant: any stored mtime will do.
IndexIsValid_Stored(t) ==
  /\ th[t].pc = "isvalid"
  /\ IF repo_mtime # -1 THEN Idle(t) /\ hist' = [hist EXCEPT !.ensured = TRUE]
     ELSE Goto(t, "clear") /\ UNCHANGED hist
  /\ UNCHANGED <<tree, md5, root, backend, running, rows, order, index, repo_mtime, parsed, kept, served>>
IndexIsValid(t) ==
  /\ th[t].pc = "isvalid"
  /\ IF repo_mtime = root THEN Idle(t) /\ hist' = [hist EXCEPT !.ensured = TRUE]
     ELSE Goto(t, "clear") /\ UNCHANGED hist
  /\ UNCHANGED <<tree, md5, root, backend, running, rows, order, index, repo_mtime, parsed, kept, served>>
\* Rebuild: Clear, scanRepository, AddBatch and SetRepoMtime one after the other.
ClearIndex(t) ==
  /\ th[t].pc = "clear"
  /\ index' = {} /\ Goto(t, "scan")
  /\ UNCHANGED <<tree, md5, root, backend, running, rows, order, repo_mtime, parsed, kept, served, hist>>
ScanRepository(t) ==
  /\ th[t].pc = "scan"
  /\ th' = [th EXCEPT ![t].found = Present, ![t].pc = "add"]
  /\ UNCHANGED <<tree, md5, root, backend, running, rows, order, index, repo_mtime, parsed, kept, served, hist>>
AddBatch(t) ==
  /\ th[t].pc = "add"
  /\ index' = index \cup th[t].found /\ Goto(t, "setmtime")
  /\ UNCHANGED <<tree, md5, root, backend, running, rows, order, repo_mtime, parsed, kept, served, hist>>
SetRepoMtime(t) ==
  /\ th[t].pc = "setmtime"
  /\ repo_mtime' = root
  /\ parsed' = IF th[t].op = "RebuildCache" THEN [v \in PkgVersions |-> 0] ELSE parsed
  /\ Idle(t) /\ hist' = [hist EXCEPT !.ensured = @ \/ th[t].op = "EnsureCache"]
  /\ UNCHANGED <<tree, md5, root, backend, running, rows, order, index, kept, served>>

\* InvalidateCache empties the rows and then the index; the stored mtime stays, and
\* so does what PortageRepository keeps.
ForgetRows(t) ==
  /\ th[t].pc = "forget"
  /\ parsed' = [v \in PkgVersions |-> 0]
  /\ IF backend = "sqlite" THEN sqliteInvalidateAll ELSE memoryInvalidateAll
  /\ Goto(t, "forgetindex")
  /\ UNCHANGED <<tree, md5, root, backend, running, index, repo_mtime, kept, served, hist>>
ForgetIndex(t) ==
  /\ th[t].pc = "forgetindex"
  /\ index' = {} /\ Idle(t)
  /\ UNCHANGED <<tree, md5, root, backend, running, rows, order, repo_mtime, parsed, kept, served, hist>>

\* InvalidatePackage: the rows, and neither the index nor what is parsed.
ForgetPackage(t) ==
  /\ th[t].pc = "forgetpackage"
  /\ IF backend = "sqlite" THEN sqliteInvalidate ELSE memoryInvalidate
  /\ Idle(t)
  /\ UNCHANGED <<tree, md5, root, backend, running, index, repo_mtime, parsed, kept, served, hist>>

-----------------------------------------------------------------------------
(* Processes and the tree *)

\* A new process finds the tables and nothing that was kept in memory.
OpenRepository ==
  /\ ~running /\ hist.processes < MaxProcesses
  /\ running' = TRUE /\ hist' = [hist EXCEPT !.processes = @ + 1, !.ensured = FALSE]
  /\ UNCHANGED <<tree, md5, root, backend, rows, order, index, repo_mtime, parsed, kept, th, served>>
\* The process ends or is killed, wherever its goroutines are.
ProcessEnds ==
  /\ running /\ running' = FALSE
  /\ parsed' = [v \in PkgVersions |-> 0] /\ kept' = [v \in PkgVersions |-> 0]
  /\ th' = [t \in Threads |-> NoCall]
  /\ rows' = IF backend = "memory" THEN <<>> ELSE rows
  /\ order' = <<>> /\ served' = NoneServed
  /\ UNCHANGED <<tree, md5, root, backend, index, repo_mtime, hist>>
\* A version is added, edited or removed; the mtime of the root changes only if
\* something directly below it does, or the synchronisation sets it.  Its entry in
\* md5-cache is removed, generated again, or left as it was.
EditTree(v, gone, bump) ==
  /\ hist.edits < MaxEdits /\ (gone => tree[v] # 0)
  /\ tree' = [tree EXCEPT ![v] = IF gone THEN 0 ELSE NumVersions + hist.edits + 1]
  /\ \E entry \in {0, md5[v], tree'[v]} : md5' = [md5 EXCEPT ![v] = entry]
  /\ root' = IF bump THEN root + 1 ELSE root
  /\ hist' = [hist EXCEPT !.edits = @ + 1, !.quiet = @ /\ ~running, !.bumped = @ /\ bump,
                          !.stale = @ \cup {w \in PkgVersions : md5'[w] \notin {0, tree'[w]}}]
  /\ UNCHANGED <<backend, running, rows, order, index, repo_mtime, parsed, kept, th, served>>

ThreadStep(t) ==
  \/ LoadPackage(t) \/ GetAllVersions(t)
  \/ EnsureCache(t) \/ RebuildCache(t) \/ InvalidateCache(t) \/ InvalidatePackage(t)
  \/ GetRow(t) \/ TouchRow(t) \/ CheckRow(t) \/ DropRow(t) \/ ParseEbuild(t) \/ StatForPut(t) \/ CachePackage(t) \/ LoadUncached(t)
  \/ IndexIsValid(t) \/ ClearIndex(t) \/ ScanRepository(t) \/ AddBatch(t) \/ SetRepoMtime(t) \/ ForgetRows(t) \/ ForgetIndex(t) \/ ForgetPackage(t)
CacheNext ==
  \/ \E t \in Threads : ThreadStep(t)
  \/ OpenRepository \/ ProcessEnds
  \/ \E v \in PkgVersions, gone, bump \in BOOLEAN : EditTree(v, gone, bump)

CacheSpec == CacheInit /\ [][CacheNext]_cacheVars

-----------------------------------------------------------------------------
\* What the repository returns for a version is the ebuild that the tree has, as
\* long as the tree changes only between two processes and the version's entry in
\* md5-cache, if there is one, has always changed with it: rows of an earlier
\* process are dropped by their mtime, whichever of two goroutines fills or drops
\* them.
ServedCurrent == hist.quiet /\ served.version \notin hist.stale => served.content = served.now

\* After EnsureCache, LoadPackage returns the highest version of the tree, if the
\* tree changes only between two processes and every change shows in the mtime of
\* its root: an index that was left half rebuilt by a killed process is not taken
\* for a whole one.
LatestAfterEnsure ==
  hist.quiet /\ hist.bumped /\ served.sure /\ served.op = "LoadPackage" => served.version = served.highest

\* In memory every row is named in the order and there are never too many: the loop
\* of Put, which holds the lock, always finds a row to evict, although Get releases
\* the lock before it moves the key and so may name keys that have no row.
EvictionFindsVictim ==
  backend = "memory" => DOMAIN rows \subseteq Range(order) /\ Cardinality(DOMAIN rows) <= MaxEntries

\* What the caches keep beside their rows can be relied on: the index after
\* EnsureCache, and the order of the rows in memory.
StructuresAgree == LatestAfterEnsure /\ EvictionFindsVictim

\* Refuted: what is made of a row has none of its dependencies (cached_portage.go:263
\* "entryToPackage converts a cache entry to a package.").
ParsedWhole == served.whole

\* Refuted: a process goes on with what it has parsed, whatever becomes of the tree
\* (cache.go of repo/cache: "Returns nil, cache.ErrNotFound if entry does not exist
\* or is stale").
AlwaysCurrent == served.content = served.now

\* Refuted: an entry of md5-cache is taken whatever the mtime or the md5 of the ebuild,
\* and the row made from it gets the mtime of the ebuild that it does not come from
\* (portage.go:727 "pre-computed values generated by egencache, which correctly
\* handles").
QuietMeansCurrent == hist.quiet => served.content = served.now

\* Refuted: index.go "Returns false if the repository has been modified since last
\* rebuild": only what shows in the mtime of the root.
ModifiedMeansInvalid == hist.quiet /\ served.sure /\ served.op = "LoadPackage" => served.version = served.highest

\* Refuted: a key that was evicted or deleted between the two halves of Get is in
\* the order without a row.
OrderNamesRows == backend = "memory" => Range(order) \subseteq DOMAIN rows

-----------------------------------------------------------------------------
(* What ServedCurrent and StructuresAgree rest on *)

\* The time stamps that a row can have.
Times == {Mtime[c] : c \in Contents} \cup {<<Mtime[c][1], 0>> : c \in Contents} \cup {<<0, 0>>}
Row == [content : Contents, mtime : Times]
Operations == {"none", "LoadPackage", "GetAllVersions", "EnsureCache", "RebuildCache", "InvalidateCache", "InvalidatePackage"}
Working == {"get", "touch", "stat", "delete", "parse", "reparse", "putstat", "put"}
Rebuilding == {"scan", "add", "setmtime"}
CachePoints == Working \cup Rebuilding \cup {"idle", "base", "isvalid", "clear", "forget", "forgetindex", "forgetpackage"}
CallType == [op : Operations, pc : CachePoints, todo : SUBSET PkgVersions, entry : Contents \cup {0},
             content : Contents \cup {0}, mtime : Times,
             found : SUBSET PkgVersions, any : BOOLEAN, sure : BOOLEAN]
ServedType == [op : Operations, version : PkgVersions \cup {0}, content : Contents \cup {0}, whole : BOOLEAN,
               now : Contents \cup {0}, highest : PkgVersions \cup {0}, sure : BOOLEAN]
HistType == [calls : Nat, edits : Nat, processes : Nat, quiet : BOOLEAN, bumped : BOOLEAN, ensured : BOOLEAN,
             stale : SUBSET PkgVersions]

TreeOK ==
  /\ tree \in [PkgVersions -> Contents \cup {0}] /\ md5 \in [PkgVersions -> Contents \cup {0}] /\ root \in Nat
  /\ backend \in Backends /\ running \in BOOLEAN /\ hist \in HistType
CachesOK ==
  /\ DOMAIN rows \subseteq PkgVersions /\ \A v \in DOMAIN rows : rows[v] \in Row
  /\ order \in Seq(PkgVersions) /\ index \in SUBSET PkgVersions /\ repo_mtime \in Int
  /\ parsed \in [PkgVersions -> Contents \cup {0}] /\ kept \in [PkgVersions -> Contents \cup {0}]
CallsOK ==
  /\ th \in [Threads -> CallType] /\ served \in ServedType
  /\ \A t \in Threads : /\ th[t].pc \in Working => th[t].todo # {}
                        /\ th[t].pc \in {"touch", "stat"} => th[t].entry # 0
                        /\ th[t].pc \in {"putstat", "put"} => th[t].content # 0

\* The tree, the tables, the memory of the process and its calls have the shape that
\* internal/cache and internal/repo give them; a call has a version to look at
\* wherever it looks at one, an entry where it checks one and a package where it
\* keeps one, and nothing in memory outlives a process.
CacheTypeOK ==
  /\ TreeOK /\ CachesOK /\ CallsOK
  /\ ~running => /\ parsed = [v \in PkgVersions |-> 0] /\ kept = [v \in PkgVersions |-> 0]
                 /\ th = [t \in Threads |-> NoCall] /\ served = NoneServed

\* While the tree stays as it is, what was read of it is what it holds; a row has
\* the time stamp of the content from which it was made.  Versions whose entry in
\* md5-cache has been stale are left out of both.
ReadCurrent ==
  hist.quiet =>
    /\ \A v \in PkgVersions \ hist.stale :
         md5[v] \in {0, tree[v]} /\ kept[v] \in {0, tree[v]} /\ parsed[v] \in {0, tree[v]}
    /\ \A v \in DOMAIN rows \ hist.stale : rows[v].mtime = StoredMtime(Mtime[rows[v].content])
    /\ \A t \in Threads : th[t].pc \in Working /\ Key(t) \notin hist.stale =>
         /\ th[t].pc \in {"touch", "stat"} => th[t].mtime = StoredMtime(Mtime[th[t].entry])
         /\ th[t].pc \in {"putstat", "put"} => th[t].content = tree[Key(t)]
         /\ th[t].pc = "put" => th[t].mtime = StoredMtime(Mtime[th[t].content])

\* The stored mtime is never ahead of the tree, and an index under that mtime, or in
\* the hands of a goroutine that has emptied it, holds nothing or all there is.
IndexWhole ==
  /\ repo_mtime <= root
  /\ hist.quiet /\ hist.bumped =>
       /\ repo_mtime = root \/ (\E t \in Threads : th[t].pc \in Rebuilding) => index \in {{}, Present}
       /\ hist.ensured /\ running => repo_mtime = root
       /\ \A t \in Threads :
            /\ th[t].pc = "add" => th[t].found = Present
            /\ th[t].sure /\ th[t].op = "LoadPackage" /\ th[t].todo # {} =>
                 Present # {} /\ th[t].todo = {Max(Present)}

\* The inductive invariant of the caches.
CacheInv == CacheTypeOK /\ ReadCurrent /\ ServedCurrent /\ IndexWhole /\ StructuresAgree
=============================================================================
