-------------------------- MODULE RepositoryProofs --------------------------
(***************************************************************************)
(* Proofs about what grpm gets from outside: the ebuilds of a repository   *)
(* through their caches (MetadataCache) and the distfiles of a package     *)
(* (Fetch).  The two models share no variable; each theorem is about the   *)
(* specification it names.                                                 *)
(***************************************************************************)
EXTENDS MetadataCache, Fetch, FiniteSetTheorems, SequenceTheorems,
        WellFoundedInduction, TLAPS

(***************************************************************************)
(* The caches, for any number of goroutines, versions, calls, edits and    *)
(* processes and any capacity: what is served is what the tree has, the    *)
(* index is whole when it counts as valid, and Put always finds a row to   *)
(* evict.                                                                  *)
(***************************************************************************)

-----------------------------------------------------------------------------
(* Smallest and largest versions *)

\* A nonempty set of natural numbers has a smallest member.
LEMMA Smallest ==
    ASSUME NEW S, S \subseteq Nat, S # {}
    PROVE  Min(S) \in S /\ \A y \in S : Min(S) <= y
  <1> DEFINE R == OpToRel(<, Nat)
  <1>1. IsWellFoundedOn(R, Nat)
    BY NatLessThanWellFounded
  <1>2. \A x, y \in Nat : y < x => <<y, x>> \in R
    BY DEF OpToRel
  <1> HIDE DEF R
  <1>3. PICK x \in S : \A y \in S : ~ (<<y, x>> \in R)
    BY <1>1, WFMin, Zenon
  <1>4. ASSUME NEW y \in S PROVE x <= y
    <2>1. x \in Nat /\ y \in Nat
      OBVIOUS
    <2>2. ~(y < x)
      BY <1>2, <1>3, <2>1
    <2> QED BY <2>1, <2>2
  <1> QED BY <1>3, <1>4 DEF Min

\* Min and Max of versions are among them, and there is but one in a singleton.
LEMMA VersionsMinMax ==
    ASSUME NEW S \in SUBSET PkgVersions, S # {}
    PROVE  Min(S) \in S /\ Max(S) \in S
  <1>0. S \subseteq Nat /\ \A x \in S : NumVersions - x \in Nat
    BY SizesAssumption DEF PkgVersions
  <1>1. Min(S) \in S
    BY <1>0, Smallest
  <1> DEFINE D == {NumVersions - x : x \in S}
  <1>2. D \subseteq Nat /\ D # {}
    BY <1>0
  <1> HIDE DEF D
  <1>3. Min(D) \in D /\ \A y \in D : Min(D) <= y
    BY <1>2, Smallest
  <1>4. PICK m \in S : Min(D) = NumVersions - m
    BY <1>3 DEF D
  <1>5. \A y \in S : NumVersions - m <= NumVersions - y
    BY <1>3, <1>4 DEF D
  <1>6. \A y \in S : m >= y
    BY <1>0, <1>5, SizesAssumption
  <1>7. Max(S) \in S
    BY <1>6 DEF Max
  <1> QED BY <1>1, <1>7

\* The version that a working call looks at is one of the package.
LEMMA KeyType ==
    ASSUME CallsOK, NEW t \in Threads, th[t].pc \in Working
    PROVE  Key(t) \in th[t].todo /\ Key(t) \in PkgVersions
  <1>1. th[t].todo \in SUBSET PkgVersions /\ th[t].todo # {}
    BY DEF CallsOK, CallType
  <1> QED BY <1>1, VersionsMinMax DEF Key

\* Whatever time stamp is stored is one that a row can have.
LEMMA StoredType ==
    ASSUME NEW c \in Contents
    PROVE  StoredMtime(Mtime[c]) \in Times
  BY DEF StoredMtime, Times

-----------------------------------------------------------------------------
(* How the calls move *)

\* A call that has not begun is a call.
LEMMA NoCallType == NoCall \in CallType /\ NoCall.pc \notin Working
  <1>1. "idle" \in CachePoints /\ "idle" \notin Working
    BY DEF CachePoints, Working
  <1>4. "none" \in Operations
    BY DEF Operations
  <1>3. <<0, 0>> \in Times
    BY Zenon DEF Times
  <1>2. {} \in SUBSET PkgVersions /\ 0 \in Contents \cup {0} /\ FALSE \in BOOLEAN
    OBVIOUS
  <1> QED BY <1>1, <1>2, <1>3, <1>4 DEF NoCall, CallType

\* A call keeps everything but its control point.
SameCall(t) ==
    /\ th'[t].op = th[t].op /\ th'[t].sure = th[t].sure /\ th'[t].todo = th[t].todo
    /\ th'[t].entry = th[t].entry /\ th'[t].content = th[t].content
    /\ th'[t].mtime = th[t].mtime /\ th'[t].found = th[t].found

\* Goto changes the control point of one call.
LEMMA GotoMoves ==
    ASSUME th \in [Threads -> CallType], NEW t \in Threads, NEW pc \in CachePoints, Goto(t, pc)
    PROVE  /\ th' \in [Threads -> CallType]
           /\ th'[t].pc = pc /\ SameCall(t)
           /\ \A u \in Threads : u # t => th'[u] = th[u]
  <1>1. th' = [th EXCEPT ![t] = [th[t] EXCEPT !.pc = pc]]
    BY DEF Goto
  <1>2. [th[t] EXCEPT !.pc = pc] \in CallType
    BY DEF CallType
  <1>3. th'[t] = [th[t] EXCEPT !.pc = pc]
    BY <1>1
  <1>4. th'[t].pc = pc /\ SameCall(t)
    BY <1>3 DEF CallType, SameCall
  <1> QED BY <1>1, <1>2, <1>3, <1>4

\* Idle ends one call.
LEMMA IdleMoves ==
    ASSUME th \in [Threads -> CallType], NEW t \in Threads, Idle(t)
    PROVE  /\ th' \in [Threads -> CallType] /\ th'[t] = NoCall
           /\ \A u \in Threads : u # t => th'[u] = th[u]
  BY NoCallType DEF Idle

\* After one version a call ends, goes on to the next one or to the tree itself.
LEMMA AdvanceMoves ==
    ASSUME th \in [Threads -> CallType], NEW t \in Threads, NEW found \in BOOLEAN, Advance(t, found)
    PROVE  /\ th' \in [Threads -> CallType]
           /\ \A u \in Threads : u # t => th'[u] = th[u]
           /\ \/ th'[t] = NoCall
              \/ th'[t].pc = "base" /\ SameCall(t)
              \/ /\ th'[t].pc = "get" /\ th'[t].op = th[t].op /\ th'[t].sure = th[t].sure
                 /\ th'[t].todo = th[t].todo \ {Key(t)} /\ th'[t].todo # {}
  <1> DEFINE any == th[t].any \/ found
             rest == th[t].todo \ {Key(t)}
             next == [NoCall EXCEPT !.op = th[t].op, !.pc = "get", !.todo = rest, !.any = any, !.sure = th[t].sure]
  <1>1. CASE rest # {}
    <2>1. th' = [th EXCEPT ![t] = next]
      BY <1>1 DEF Advance
    <2>2. any \in BOOLEAN
      BY DEF CallType
    <2>3. /\ th[t].op \in Operations /\ th[t].sure \in BOOLEAN /\ rest \in SUBSET PkgVersions
          /\ "get" \in CachePoints
      BY DEF CallType, CachePoints, Working
    <2> HIDE DEF any, rest
    <2>4. next \in CallType
      BY <2>2, <2>3, NoCallType DEF CallType
    <2>5. next.pc = "get" /\ next.op = th[t].op /\ next.sure = th[t].sure /\ next.todo = rest
      BY NoCallType DEF CallType
    <2> HIDE DEF next
    <2> QED BY <1>1, <2>1, <2>4, <2>5 DEF rest
  <1>2. CASE ~(rest # {})
    <2>1. Idle(t) \/ Goto(t, "base")
      BY <1>2 DEF Advance
    <2>2. "base" \in CachePoints
      BY DEF CachePoints
    <2> QED BY <2>1, <2>2, IdleMoves, GotoMoves
  <1> QED BY <1>1, <1>2

\* The highest version of the tree is one, if there is any.
LEMMA HighestType == Max0(Present) \in PkgVersions \cup {0}
  BY VersionsMinMax DEF Max0, Present

\* What is served is of the right shape, and remembered with the tree of that moment.
LEMMA ServeMoves ==
    ASSUME TreeOK, th \in [Threads -> CallType], NEW t \in Threads, NEW v \in PkgVersions,
           NEW c \in Contents \cup {0}, NEW whole \in BOOLEAN, Serve(t, v, c, whole)
    PROVE  /\ served' \in ServedType
           /\ served'.content = c /\ served'.now = tree[v] /\ served'.version = v
           /\ served'.highest = Max0(Present) /\ served'.op = th[t].op /\ served'.sure = th[t].sure
  <1>1. tree[v] \in Contents \cup {0} /\ th[t].op \in Operations /\ th[t].sure \in BOOLEAN
    BY DEF TreeOK, CallType
  <1> QED BY <1>1, HighestType DEF Serve, ServedType

-----------------------------------------------------------------------------
(* Rows and their order *)

\* The members of a sequence after Append.
LEMMA AppendRange ==
    ASSUME NEW S, NEW s \in Seq(S), NEW v \in S
    PROVE  Append(s, v) \in Seq(S) /\ Range(Append(s, v)) = Range(s) \cup {v}
  <1>1. Append(s, v) \in Seq(S) /\ Len(Append(s, v)) = Len(s) + 1
    OBVIOUS
  <1>2. /\ \A i \in 1 .. Len(s) : Append(s, v)[i] = s[i]
        /\ Append(s, v)[Len(s) + 1] = v
    OBVIOUS
  <1>3. 1 .. (Len(s) + 1) = (1 .. Len(s)) \cup {Len(s) + 1}
    OBVIOUS
  <1>4. Range(Append(s, v)) = {Append(s, v)[i] : i \in 1 .. (Len(s) + 1)}
    BY <1>1, RangeEquality
  <1>5. Range(s) = {s[i] : i \in 1 .. Len(s)}
    BY RangeEquality
  <1> QED BY <1>1, <1>2, <1>3, <1>4, <1>5

\* RemoveFirst takes nothing but its argument out of a sequence.
LEMMA RemoveFirstRange ==
    ASSUME NEW S, NEW s \in Seq(S), NEW e
    PROVE  /\ RemoveFirst(s, e) \in Seq(S)
           /\ Range(s) \ {e} \subseteq Range(RemoveFirst(s, e))
  <1> DEFINE I == {i \in 1 .. Len(s) : s[i] = e}
             k == Min(I)
  <1>1. CASE I = {}
    BY <1>1 DEF RemoveFirst
  <1>2. CASE I # {}
    <2>1. k \in 1 .. Len(s) /\ s[k] = e
      <3>1. I \subseteq Nat
        OBVIOUS
      <3>2. k \in I
        BY <1>2, <3>1, Smallest
      <3> QED BY <3>2
    <2>2. SelectInSeq(s, LAMBDA v : v = e) = k
      BY <1>2 DEF SelectInSeq
    <2> HIDE DEF k
    <2> DEFINE a == SubSeq(s, 1, k - 1)
               b == SubSeq(s, k + 1, Len(s))
    <2>3. RemoveFirst(s, e) = a \o b
      BY <1>2, <2>2 DEF RemoveFirst, RemoveAt
    <2>4. /\ a \in Seq(S) /\ Len(a) = k - 1 /\ \A i \in 1 .. (k - 1) : a[i] = s[i]
      BY <2>1
    <2>5. /\ b \in Seq(S) /\ Len(b) = Len(s) - k
          /\ \A i \in 1 .. (Len(s) - k) : b[i] = s[i + k]
      BY <2>1
    <2> HIDE DEF a, b
    <2>6. a \o b \in Seq(S) /\ Range(a \o b) = Range(a) \cup Range(b)
      BY <2>4, <2>5, RangeConcatenation
    <2>7. ASSUME NEW x \in Range(s), x # e
          PROVE  x \in Range(a) \cup Range(b)
      <3>1. PICK j \in 1 .. Len(s) : x = s[j]
        BY RangeEquality
      <3>2. j # k
        BY <2>1, <2>7, <3>1
      <3>3. CASE j < k
        <4>1. j \in 1 .. Len(a) /\ a[j] = x
          BY <2>1, <2>4, <3>1, <3>3
        <4> QED BY <2>4, <4>1, RangeEquality
      <3>4. CASE j > k
        <4>1. j - k \in 1 .. Len(b) /\ (j - k) + k = j
          BY <2>1, <2>5, <3>4
        <4>2. b[j - k] = x
          BY <2>5, <3>1, <4>1
        <4> QED BY <2>5, <4>1, <4>2, RangeEquality
      <3> QED BY <2>1, <3>2, <3>3, <3>4
    <2> QED BY <2>3, <2>6, <2>7
  <1> QED BY <1>1, <1>2

\* Moving a key to the end keeps every key, and names it.
LEMMA MoveToEnd ==
    ASSUME order \in Seq(PkgVersions), NEW v \in PkgVersions
    PROVE  moveToEnd(v) \in Seq(PkgVersions) /\ Range(order) \cup {v} \subseteq Range(moveToEnd(v))
  <1> DEFINE s == removeFromOrder(v)
  <1>1. s \in Seq(PkgVersions) /\ Range(order) \ {v} \subseteq Range(s)
    BY RemoveFirstRange DEF removeFromOrder
  <1> HIDE DEF s
  <1>2. Append(s, v) \in Seq(PkgVersions) /\ Range(Append(s, v)) = Range(s) \cup {v}
    BY <1>1, AppendRange
  <1> QED BY <1>1, <1>2 DEF moveToEnd, s

\* The rows of the cache are finitely many.
LEMMA FiniteRows ==
    ASSUME CachesOK
    PROVE  IsFiniteSet(DOMAIN rows) /\ Cardinality(DOMAIN rows) \in Nat
  <1>1. IsFiniteSet(PkgVersions)
    BY SizesAssumption, FS_Interval DEF PkgVersions
  <1> QED BY <1>1, FS_Subset, FS_CardinalityType DEF CachesOK

\* What the steps on rows keep: a row is new or one of the old, and in memory
\* every row is named in the order and there is room for all.
RowsKept(E) ==
    /\ DOMAIN rows' \subseteq PkgVersions
    /\ \A w \in DOMAIN rows' : rows'[w] \in E \/ (w \in DOMAIN rows /\ rows'[w] = rows[w])
    /\ order' \in Seq(PkgVersions)
    /\ backend = "memory" => DOMAIN rows' \subseteq Range(order') /\ Cardinality(DOMAIN rows') <= MaxEntries

\* Every row but that of v is one of the old.
OthersKept(v) == \A w \in DOMAIN rows' \ {v} : w \in DOMAIN rows /\ rows'[w] = rows[w]

\* Put in memory: evicting keeps the order ahead of the rows.
LEMMA MemoryPutKeeps ==
    ASSUME CachesOK, EvictionFindsVictim, backend = "memory",
           NEW v \in PkgVersions, NEW e, memoryPut(v, e)
    PROVE  RowsKept({e}) /\ OthersKept(v)
  <1>1. CASE v \in DOMAIN rows
    <2>1. rows' = WithRow(rows, v, e) /\ order' = moveToEnd(v)
      BY <1>1 DEF memoryPut
    <2>2. order' \in Seq(PkgVersions) /\ Range(order) \cup {v} \subseteq Range(order')
      BY <2>1, MoveToEnd DEF CachesOK
    <2>3. /\ DOMAIN rows' = DOMAIN rows
          /\ \A w \in DOMAIN rows' : rows'[w] = e \/ (w \in DOMAIN rows /\ rows'[w] = rows[w])
          /\ \A w \in DOMAIN rows' \ {v} : w \in DOMAIN rows /\ rows'[w] = rows[w]
      BY <1>1, <2>1 DEF WithRow
    <2> QED BY <2>2, <2>3 DEF CachesOK, EvictionFindsVictim, RowsKept, OthersKept
  <1>2. CASE v \notin DOMAIN rows
    <2>1. PICK n \in 0 .. Len(order) :
            /\ Room(n)
            /\ rows' = WithRow(evictOldest(v, n).rows, v, e)
            /\ order' = evictOldest(v, n).order
      BY <1>2 DEF memoryPut
    <2> DEFINE head == SubSeq(order, 1, n)
               tail == SubSeq(order, n + 1, Len(order))
               left == DOMAIN rows \ Range(head)
               keptRows == Restrict(rows, left)
    <2>2. rows' = WithRow(keptRows, v, e) /\ order' = Append(tail, v)
      BY <2>1 DEF evictOldest
    <2>3. DOMAIN keptRows = left /\ \A w \in left : keptRows[w] = rows[w]
      BY DEF Restrict
    <2>4. /\ head \in Seq(PkgVersions) /\ Len(head) = n /\ \A i \in 1 .. n : head[i] = order[i]
          /\ tail \in Seq(PkgVersions) /\ Len(tail) = Len(order) - n
          /\ \A i \in 1 .. (Len(order) - n) : tail[i] = order[i + n]
      BY DEF CachesOK
    <2>5. left \subseteq Range(tail)
      <3> HIDE DEF head, tail
      <3> SUFFICES ASSUME NEW x \in left PROVE x \in Range(tail)
        OBVIOUS
      <3>1. x \in Range(order) /\ x \notin Range(head) /\ order \in Seq(PkgVersions)
        BY DEF EvictionFindsVictim, CachesOK
      <3>2. PICK j \in 1 .. Len(order) : x = order[j]
        BY <3>1, RangeEquality
      <3>3. ~(j <= n)
        <4> SUFFICES ASSUME j <= n PROVE FALSE
          OBVIOUS
        <4>1. j \in 1 .. Len(head) /\ head[j] = x
          BY <2>4, <3>2
        <4> QED BY <2>4, <3>1, <4>1, RangeEquality
      <3>4. j - n \in 1 .. Len(tail) /\ (j - n) + n = j
        BY <2>4, <3>1, <3>2, <3>3
      <3>5. tail[j - n] = x
        BY <2>4, <3>2, <3>4
      <3> QED BY <2>4, <3>4, <3>5, RangeEquality
    <2>6. Cardinality(left) < MaxEntries
      BY <2>1 DEF Room
    <2>7. IsFiniteSet(left) /\ Cardinality(left) \in Nat /\ v \notin left /\ left \subseteq PkgVersions
      BY <1>2, FiniteRows, FS_Subset, FS_CardinalityType DEF CachesOK
    <2>8. Cardinality(left \cup {v}) <= MaxEntries
      <3>1. Cardinality(left \cup {v}) = Cardinality(left) + 1
        BY <2>7, FS_AddElement
      <3> QED BY <2>6, <2>7, <3>1, SizesAssumption
    <2> HIDE DEF head, tail, left, keptRows
    <2>9. order' \in Seq(PkgVersions) /\ Range(order') = Range(tail) \cup {v}
      BY <2>2, <2>4, AppendRange
    <2>10. /\ DOMAIN rows' = left \cup {v}
           /\ \A w \in DOMAIN rows' : rows'[w] = e \/ (w \in left /\ rows'[w] = rows[w])
           /\ \A w \in DOMAIN rows' \ {v} : w \in left /\ rows'[w] = rows[w]
      BY <2>2, <2>3 DEF WithRow
    <2>11. left \subseteq DOMAIN rows
      BY DEF left
    <2> QED BY <2>5, <2>7, <2>8, <2>9, <2>10, <2>11 DEF RowsKept, OthersKept
  <1> QED BY <1>1, <1>2

\* Put, whichever cache.
LEMMA PutKeeps ==
    ASSUME TreeOK, CachesOK, EvictionFindsVictim, NEW v \in PkgVersions, NEW e, PutRow(v, e)
    PROVE  RowsKept({e}) /\ OthersKept(v)
  <1>1. CASE backend = "sqlite"
    <2>1. rows' = WithRow(rows, v, e) /\ order' = order
      BY <1>1 DEF PutRow, sqlitePut
    <2> QED BY <1>1, <2>1 DEF CachesOK, RowsKept, OthersKept, WithRow
  <1>2. CASE backend = "memory"
    BY <1>2, MemoryPutKeeps DEF PutRow
  <1> QED BY <1>1, <1>2, BackendsAssumption DEF TreeOK

\* Delete, whichever cache; no row is new.
LEMMA DeleteKeeps ==
    ASSUME TreeOK, CachesOK, EvictionFindsVictim, NEW v, DeleteRow(v)
    PROVE  RowsKept({})
  <1>1. rows' = WithoutRow(v) /\ (order' = order \/ order' = removeFromOrder(v))
    BY DEF DeleteRow, memoryDelete, sqliteDelete
  <1>2. /\ DOMAIN rows' = DOMAIN rows \ {v}
        /\ \A w \in DOMAIN rows' : rows'[w] = rows[w]
    BY <1>1 DEF WithoutRow, Restrict
  <1>3. order' \in Seq(PkgVersions) /\ Range(order) \ {v} \subseteq Range(order')
    BY <1>1, RemoveFirstRange DEF removeFromOrder, CachesOK
  <1>4. Cardinality(DOMAIN rows') \in Nat /\ Cardinality(DOMAIN rows') <= Cardinality(DOMAIN rows)
    BY <1>2, FiniteRows, FS_Subset, FS_CardinalityType
  <1>5. backend = "memory" => Cardinality(DOMAIN rows') <= MaxEntries
    BY <1>4, FiniteRows, SizesAssumption DEF EvictionFindsVictim
  <1> QED BY <1>2, <1>3, <1>5 DEF CachesOK, EvictionFindsVictim, RowsKept

\* InvalidateAll and Invalidate leave no row, and an order that is one.
LEMMA InvalidateKeeps ==
    ASSUME CachesOK,
           memoryInvalidate \/ sqliteInvalidate \/ memoryInvalidateAll \/ sqliteInvalidateAll
    PROVE  RowsKept({})
  <1>1. rows' = <<>> /\ DOMAIN rows' = {}
    BY DEF memoryInvalidate, sqliteInvalidate, memoryInvalidateAll, sqliteInvalidateAll
  <1>2. Cardinality(DOMAIN rows') = 0
    BY <1>1, FS_EmptySet
  <1>3. CASE memoryInvalidate
    <2> DEFINE dropped == {i \in DOMAIN order : order[i] \in DOMAIN rows
                                                /\ \A j \in 1 .. (i - 1) : order[j] # order[i]}
               left == DOMAIN order \ dropped
               n == Cardinality(left)
    <2>1. PICK pos \in [1 .. n -> left] : order' = [i \in DOMAIN pos |-> order[pos[i]]]
      BY <1>3 DEF memoryInvalidate
    <2>2. n \in Nat
      <3>1. DOMAIN order = 1 .. Len(order) /\ Len(order) \in Nat
        BY DEF CachesOK
      <3>2. IsFiniteSet(DOMAIN order)
        <4>1. IsFiniteSet(1 .. Len(order))
          BY <3>1, FS_Interval
        <4> QED BY <3>1, <4>1
      <3>3. left \in SUBSET (DOMAIN order)
        OBVIOUS
      <3> HIDE DEF left
      <3>4. IsFiniteSet(left)
        BY <3>2, <3>3, FS_Subset
      <3> QED BY <3>4, FS_CardinalityType
    <2>3. \A i \in left : order[i] \in PkgVersions
      BY DEF CachesOK
    <2> HIDE DEF n, left
    <2>4. order' \in [1 .. n -> PkgVersions]
      BY <2>1, <2>3
    <2>5. order' \in Seq(PkgVersions)
      BY <2>2, <2>4, SeqDef
    <2> QED BY <1>1, <1>2, <2>5, SizesAssumption DEF RowsKept
  <1>4. CASE order' = order \/ order' = <<>>
    <2>1. order' \in Seq(PkgVersions)
      BY <1>4, EmptySeq DEF CachesOK
    <2> QED BY <1>1, <1>2, <2>1, SizesAssumption DEF RowsKept
  <1> QED BY <1>3, <1>4 DEF sqliteInvalidate, memoryInvalidateAll, sqliteInvalidateAll

-----------------------------------------------------------------------------
(* Types *)

\* A call begins.
LEMMA CallMoves ==
    ASSUME CacheTypeOK, NEW t \in Threads, NEW op \in Operations, NEW todo \in SUBSET PkgVersions,
           Call(t, op, todo)
    PROVE  /\ th' \in [Threads -> CallType]
           /\ th'[t].pc = (IF todo = {} THEN "base" ELSE "get")
           /\ th'[t].op = op /\ th'[t].sure = hist.ensured /\ th'[t].todo = todo
           /\ \A u \in Threads : u # t => th'[u] = th[u]
           /\ hist' \in HistType
           /\ hist'.quiet = hist.quiet /\ hist'.bumped = hist.bumped /\ hist'.ensured = hist.ensured
  <1> DEFINE c == [NoCall EXCEPT !.op = op, !.sure = hist.ensured, !.todo = todo,
                                 !.pc = IF todo = {} THEN "base" ELSE "get"]
  <1>1. th' = [th EXCEPT ![t] = c] /\ hist' = [hist EXCEPT !.calls = @ + 1]
    BY DEF Call
  <1>2. "base" \in CachePoints /\ "get" \in CachePoints /\ hist.ensured \in BOOLEAN
    BY DEF CachePoints, Working, CacheTypeOK, TreeOK, HistType
  <1>3. c \in CallType
    BY <1>2, NoCallType DEF CallType
  <1>4. /\ c.pc = (IF todo = {} THEN "base" ELSE "get")
        /\ c.op = op /\ c.sure = hist.ensured /\ c.todo = todo
    BY NoCallType DEF CallType
  <1>5. /\ hist' \in HistType
        /\ hist'.quiet = hist.quiet /\ hist'.bumped = hist.bumped /\ hist'.ensured = hist.ensured
    BY <1>1 DEF CacheTypeOK, TreeOK, HistType
  <1> HIDE DEF c
  <1> QED BY <1>1, <1>3, <1>4, <1>5 DEF CacheTypeOK, CallsOK

\* So does the maintenance of the caches.
LEMMA MaintainMoves ==
    ASSUME CacheTypeOK, NEW t \in Threads, NEW op \in Operations, NEW pc \in CachePoints, pc \notin Working,
           Maintain(t, op, pc)
    PROVE  /\ th' \in [Threads -> CallType]
           /\ th'[t].pc = pc /\ th'[t].op = op /\ th'[t].todo = {} /\ th'[t].sure = FALSE
           /\ \A u \in Threads : u # t => th'[u] = th[u]
           /\ hist' \in HistType
           /\ hist'.quiet = hist.quiet /\ hist'.bumped = hist.bumped /\ hist'.ensured = hist.ensured
  <1> DEFINE c == [NoCall EXCEPT !.op = op, !.pc = pc]
  <1>1. th' = [th EXCEPT ![t] = c] /\ hist' = [hist EXCEPT !.calls = @ + 1]
    BY DEF Maintain
  <1>3. c \in CallType
    BY NoCallType DEF CallType
  <1>4. c.pc = pc /\ c.op = op /\ c.todo = {} /\ c.sure = FALSE
    BY DEF NoCall
  <1>5. /\ hist' \in HistType
        /\ hist'.quiet = hist.quiet /\ hist'.bumped = hist.bumped /\ hist'.ensured = hist.ensured
    BY <1>1 DEF CacheTypeOK, TreeOK, HistType
  <1> HIDE DEF c
  <1> QED BY <1>1, <1>3, <1>4, <1>5 DEF CacheTypeOK, CallsOK

\* Get finds a row and takes its entry and time stamp, or goes on to the ebuild.
LEMMA GetRowMoves ==
    ASSUME CacheTypeOK, NEW t \in Threads, GetRow(t)
    PROVE  /\ th' \in [Threads -> CallType]
           /\ \A u \in Threads : u # t => th'[u] = th[u]
           /\ \/ th'[t].pc = "parse" /\ SameCall(t)
              \/ /\ th'[t].pc \in {"touch", "stat"} /\ Key(t) \in DOMAIN rows
                 /\ th'[t].entry = rows[Key(t)].content /\ th'[t].mtime = rows[Key(t)].mtime
                 /\ th'[t].todo = th[t].todo /\ th'[t].op = th[t].op /\ th'[t].sure = th[t].sure
  <1>1. PICK next \in {"touch", "stat"} : RowFound(t, next)
    BY DEF GetRow, sqliteGet, memoryGet
  <1>2. th \in [Threads -> CallType]
    BY DEF CacheTypeOK, CallsOK
  <1>3. CASE Key(t) \notin DOMAIN rows
    <2>1. Goto(t, "parse") /\ "parse" \in CachePoints
      BY <1>1, <1>3 DEF RowFound, CachePoints, Working
    <2> QED BY <1>2, <2>1, GotoMoves
  <1>4. CASE Key(t) \in DOMAIN rows
    <2> DEFINE r == rows[Key(t)]
               c == [th[t] EXCEPT !.entry = r.content, !.mtime = r.mtime, !.pc = next]
    <2>1. th' = [th EXCEPT ![t] = c]
      BY <1>1, <1>4 DEF RowFound
    <2>2. r.content \in Contents /\ r.mtime \in Times /\ next \in CachePoints
      BY <1>4 DEF CacheTypeOK, CachesOK, Row, CachePoints, Working
    <2> HIDE DEF r
    <2>3. c \in CallType
      BY <1>2, <2>2 DEF CallType
    <2>4. /\ c.pc = next /\ c.entry = r.content /\ c.mtime = r.mtime
          /\ c.todo = th[t].todo /\ c.op = th[t].op /\ c.sure = th[t].sure
      BY <1>2 DEF CallType
    <2> HIDE DEF c
    <2> QED BY <1>2, <1>4, <2>1, <2>3, <2>4 DEF r
  <1> QED BY <1>3, <1>4

\* A thread takes a step only in a running process, and leaves the tree alone.
LEMMA StepFrame ==
    ASSUME CacheTypeOK, NEW t \in Threads, ThreadStep(t)
    PROVE  running /\ UNCHANGED <<tree, md5, root, backend, running>>
  <1>1. UNCHANGED <<tree, md5, root, backend, running>>
    BY DEF ThreadStep, LoadPackage, GetAllVersions, Call, EnsureCache, RebuildCache, InvalidateCache,
       InvalidatePackage, Maintain, GetRow, TouchRow, CheckRow, DropRow, ParseEbuild, StatForPut, CachePackage,
       LoadUncached, IndexIsValid, ClearIndex, ScanRepository, AddBatch, SetRepoMtime, ForgetRows, ForgetIndex,
       ForgetPackage
  <1>2. running \/ th[t].pc # "idle"
    BY DEF ThreadStep, LoadPackage, GetAllVersions, Call, EnsureCache, RebuildCache, InvalidateCache,
       InvalidatePackage, Maintain, GetRow, TouchRow, CheckRow, DropRow, ParseEbuild, StatForPut, CachePackage,
       LoadUncached, IndexIsValid, ClearIndex, ScanRepository, AddBatch, SetRepoMtime, ForgetRows, ForgetIndex,
       ForgetPackage
  <1>3. ~running => th[t].pc = "idle"
    BY DEF CacheTypeOK, NoCall
  <1> QED BY <1>1, <1>2, <1>3

\* The calls keep their types if the one that moves does.
LEMMA CallsKept ==
    ASSUME CallsOK, NEW t \in Threads, th' \in [Threads -> CallType], served' \in ServedType,
           \A u \in Threads : u # t => th'[u] = th[u],
           th'[t].pc \in Working => th'[t].todo # {},
           th'[t].pc \in {"touch", "stat"} => th'[t].entry # 0,
           th'[t].pc \in {"putstat", "put"} => th'[t].content # 0
    PROVE  CallsOK'
  BY DEF CallsOK

\* A call that ends or that waits for nothing keeps the types.
LEMMA RestKept ==
    ASSUME CallsOK, NEW t \in Threads, th' \in [Threads -> CallType], served' \in ServedType,
           \A u \in Threads : u # t => th'[u] = th[u], th'[t].pc \notin Working
    PROVE  CallsOK'
  <1>1. {"touch", "stat", "putstat", "put"} \subseteq Working
    BY DEF Working
  <1> QED BY <1>1, CallsKept

\* After one version, wherever the call goes.
LEMMA AdvanceKept ==
    ASSUME CallsOK, NEW t \in Threads, served' \in ServedType,
           NEW found \in BOOLEAN, Advance(t, found)
    PROVE  CallsOK'
  <1>1. th \in [Threads -> CallType]
    BY DEF CallsOK
  <1>2. /\ th' \in [Threads -> CallType]
        /\ \A u \in Threads : u # t => th'[u] = th[u]
        /\ th'[t] = NoCall \/ th'[t].pc = "base" \/ (th'[t].pc = "get" /\ th'[t].todo # {})
    BY <1>1, AdvanceMoves
  <1>3. "base" \notin Working
    BY DEF Working
  <1> QED BY <1>2, <1>3, NoCallType, RestKept, CallsKept

\* RowsKept is what the types of the rows need.
LEMMA RowsTypes ==
    ASSUME CachesOK, NEW E \in SUBSET Row, RowsKept(E), backend' = backend,
           index' \in SUBSET PkgVersions, repo_mtime' \in Int,
           parsed' \in [PkgVersions -> Contents \cup {0}], kept' \in [PkgVersions -> Contents \cup {0}]
    PROVE  CachesOK' /\ EvictionFindsVictim'
  BY DEF CachesOK, EvictionFindsVictim, RowsKept

\* What PortageRepository makes of an ebuild is a content, or nothing.
LEMMA ParseType ==
    ASSUME TreeOK, CachesOK, NEW v \in PkgVersions
    PROVE  repoParse(v) \in Contents \cup {0}
  BY DEF repoParse, TreeOK, CachesOK

\* What is loaded without the caches is there.
LEMMA LoadedPresent ==
    ASSUME NEW t \in Threads
    PROVE  Loaded(t) \subseteq Present /\ Present \subseteq PkgVersions
  BY DEF Loaded, Present

\* The steps of LoadPackage and GetAllVersions.
LEMMA LoadTypes ==
    ASSUME CacheTypeOK, EvictionFindsVictim, NEW t \in Threads,
           \/ LoadPackage(t) \/ GetAllVersions(t) \/ GetRow(t) \/ TouchRow(t) \/ CheckRow(t)
           \/ DropRow(t) \/ ParseEbuild(t) \/ StatForPut(t) \/ CachePackage(t) \/ LoadUncached(t)
    PROVE  CachesOK' /\ CallsOK' /\ hist' \in HistType /\ EvictionFindsVictim'
  <1> USE DEF CacheTypeOK
  <1>0. th \in [Threads -> CallType] /\ served \in ServedType /\ hist \in HistType
    BY DEF CallsOK, TreeOK
  <1>1. ASSUME NEW op \in Operations, NEW todo \in SUBSET PkgVersions, Call(t, op, todo)
        PROVE  CachesOK' /\ CallsOK' /\ hist' \in HistType /\ EvictionFindsVictim'
    <2>1. UNCHANGED <<backend, rows, order, index, repo_mtime, parsed, kept, served>>
      BY <1>1 DEF Call
    <2>2. /\ th' \in [Threads -> CallType] /\ hist' \in HistType
          /\ th'[t].pc = (IF todo = {} THEN "base" ELSE "get") /\ th'[t].todo = todo
          /\ \A u \in Threads : u # t => th'[u] = th[u]
      BY <1>1, CallMoves
    <2>3. "base" \notin Working
      BY DEF Working
    <2>4. CallsOK'
      BY <1>0, <2>1, <2>2, <2>3, CallsKept
    <2> QED BY <2>1, <2>2, <2>4 DEF CachesOK, EvictionFindsVictim
  <1>2. CASE LoadPackage(t) \/ GetAllVersions(t)
    <2>1. {"LoadPackage", "GetAllVersions"} \subseteq Operations
      BY DEF Operations
    <2>2. index \in SUBSET PkgVersions /\ (index # {} => {Max(index)} \in SUBSET PkgVersions)
      BY VersionsMinMax DEF CachesOK
    <2>3. \E op \in Operations, todo \in SUBSET PkgVersions : Call(t, op, todo)
      BY <1>2, <2>1, <2>2 DEF LoadPackage, GetAllVersions, LookupPackage
    <2> QED BY <1>1, <2>3
  <1>3. CASE GetRow(t)
    <2>1. UNCHANGED <<backend, rows, order, index, repo_mtime, parsed, kept, served, hist>> /\ th[t].pc = "get"
      BY <1>3 DEF GetRow
    <2>2. th[t].todo # {}
      BY <2>1 DEF CallsOK, Working
    <2>3. \A v \in DOMAIN rows : rows[v].content # 0
      BY SizesAssumption DEF CachesOK, Row, Contents
    <2>4. /\ th' \in [Threads -> CallType]
          /\ \A u \in Threads : u # t => th'[u] = th[u]
          /\ th'[t].todo # {} /\ th'[t].pc \notin {"putstat", "put"}
          /\ th'[t].pc \in {"touch", "stat"} => th'[t].entry # 0
      BY <1>3, <2>2, <2>3, GetRowMoves DEF SameCall
    <2>5. CallsOK'
      BY <1>0, <2>1, <2>4, CallsKept
    <2> QED BY <1>0, <2>1, <2>5 DEF CachesOK, EvictionFindsVictim
  <1>4. CASE TouchRow(t)
    <2>1. UNCHANGED <<backend, rows, index, repo_mtime, parsed, kept, served, hist>>
          /\ th[t].pc = "touch" /\ order' = moveToEnd(Key(t)) /\ Goto(t, "stat")
      BY <1>4 DEF TouchRow
    <2>2. th[t].pc \in Working /\ "stat" \in CachePoints
      BY <2>1 DEF Working, CachePoints
    <2>3. order' \in Seq(PkgVersions) /\ Range(order) \subseteq Range(order')
      BY <2>1, <2>2, KeyType, MoveToEnd DEF CachesOK
    <2>4. CallsOK'
      <3>1. /\ th' \in [Threads -> CallType] /\ th'[t].pc = "stat" /\ SameCall(t)
            /\ \A u \in Threads : u # t => th'[u] = th[u]
        BY <1>0, <2>1, <2>2, GotoMoves
      <3>2. th[t].todo # {} /\ th[t].entry # 0
        BY <2>1, <2>2 DEF CallsOK
      <3> QED BY <1>0, <2>1, <3>1, <3>2, CallsKept DEF SameCall
    <2> QED BY <1>0, <2>1, <2>3, <2>4 DEF CachesOK, EvictionFindsVictim
  <1>5. CASE CheckRow(t)
    <2>1. UNCHANGED <<backend, rows, order, index, repo_mtime, parsed, kept, hist>> /\ th[t].pc = "stat"
      BY <1>5 DEF CheckRow
    <2>2. th[t].pc \in Working /\ "delete" \in CachePoints
      BY <2>1 DEF Working, CachePoints
    <2>3. CASE IsValid(t)
      <3>1. entryToPackage(t) /\ Advance(t, TRUE)
        BY <1>5, <2>3 DEF CheckRow
      <3>2. th[t].entry \in Contents \cup {0} /\ Key(t) \in PkgVersions
        BY <1>0, <2>2, KeyType DEF CallType
      <3>3. served' \in ServedType
        BY <1>0, <3>1, <3>2, ServeMoves DEF entryToPackage
      <3>4. CallsOK'
        BY <3>1, <3>3, AdvanceKept
      <3> QED BY <1>0, <2>1, <3>4 DEF CachesOK, EvictionFindsVictim
    <2>4. CASE ~IsValid(t)
      <3>1. Goto(t, "delete") /\ UNCHANGED served
        BY <1>5, <2>4 DEF CheckRow
      <3>2. /\ th' \in [Threads -> CallType] /\ th'[t].pc = "delete" /\ SameCall(t)
            /\ \A u \in Threads : u # t => th'[u] = th[u]
        BY <1>0, <2>2, <3>1, GotoMoves
      <3>3. th[t].todo # {}
        BY <2>2 DEF CallsOK
      <3>4. CallsOK'
        BY <1>0, <3>1, <3>2, <3>3, CallsKept DEF SameCall
      <3> QED BY <1>0, <2>1, <3>4 DEF CachesOK, EvictionFindsVictim
    <2> QED BY <2>3, <2>4
  <1>6. CASE DropRow(t)
    <2>1. /\ UNCHANGED <<backend, index, repo_mtime, parsed, kept, served, hist>>
          /\ th[t].pc = "delete" /\ DeleteRow(Key(t)) /\ Goto(t, "parse")
      BY <1>6 DEF DropRow
    <2>2. th[t].pc \in Working /\ "parse" \in CachePoints
      BY <2>1 DEF Working, CachePoints
    <2>3. /\ th' \in [Threads -> CallType] /\ th'[t].pc = "parse" /\ SameCall(t)
          /\ \A u \in Threads : u # t => th'[u] = th[u]
      BY <1>0, <2>1, <2>2, GotoMoves
    <2>4. th[t].todo # {}
      BY <2>2 DEF CallsOK
    <2>5. CallsOK'
      BY <1>0, <2>1, <2>3, <2>4, CallsKept DEF SameCall
    <2>6. CachesOK' /\ EvictionFindsVictim'
      <3>1. RowsKept({})
        BY <2>1, DeleteKeeps
      <3> QED BY <2>1, <3>1, RowsTypes DEF CachesOK
    <2> QED BY <1>0, <2>1, <2>5, <2>6
  <1>7. CASE ParseEbuild(t)
    <2> DEFINE v == Key(t)
               known == IF parsed[v] # 0 THEN parsed[v] ELSE repoParse(v)
    <2>1. UNCHANGED <<backend, rows, order, index, repo_mtime, hist>> /\ th[t].pc \in {"parse", "reparse"}
      BY <1>7 DEF ParseEbuild
    <2>2. th[t].pc \in Working /\ {"base", "reparse"} \subseteq CachePoints /\ "base" \notin Working
      BY <2>1 DEF Working, CachePoints
    <2>3. v \in PkgVersions /\ th[t].todo # {}
      BY <2>2, KeyType DEF CallsOK
    <2> HIDE DEF v
    <2>4. known \in Contents \cup {0}
      BY <2>3, ParseType DEF CachesOK
    <2>5. CASE known = 0
      <3>1. UNCHANGED <<parsed, kept, served>>
            /\ (Goto(t, "base") \/ Advance(t, FALSE) \/ Goto(t, "reparse"))
        BY <1>7, <2>5 DEF ParseEbuild, v
      <3>2. ASSUME NEW pc \in {"base", "reparse"}, Goto(t, pc) PROVE CallsOK'
        <4>1. /\ th' \in [Threads -> CallType] /\ th'[t].pc = pc /\ SameCall(t)
              /\ \A u \in Threads : u # t => th'[u] = th[u]
          BY <1>0, <2>2, <3>2, GotoMoves
        <4> QED BY <1>0, <2>3, <3>1, <4>1, CallsKept DEF SameCall
      <3>3. CallsOK'
        BY <1>0, <3>1, <3>2, AdvanceKept
      <3> QED BY <1>0, <2>1, <3>1, <3>3 DEF CachesOK, EvictionFindsVictim
    <2>6. CASE known # 0
      <3>1. /\ parsed' = [parsed EXCEPT ![v] = known]
            /\ kept' = kept \/ kept' = [kept EXCEPT ![v] = known]
            /\ \/ Serve(t, v, known, TRUE) /\ Advance(t, TRUE)
               \/ th' = [th EXCEPT ![t].content = known, ![t].pc = "putstat"] /\ UNCHANGED served
        BY <1>7, <2>6 DEF ParseEbuild, v
      <3> HIDE DEF known
      <3>2. /\ parsed' \in [PkgVersions -> Contents \cup {0}]
            /\ kept' \in [PkgVersions -> Contents \cup {0}]
        BY <2>3, <2>4, <3>1 DEF CachesOK
      <3>3. CASE Serve(t, v, known, TRUE) /\ Advance(t, TRUE)
        <4>1. served' \in ServedType
          BY <1>0, <2>3, <2>4, <3>3, ServeMoves
        <4>2. CallsOK'
          BY <3>3, <4>1, AdvanceKept
        <4> QED BY <1>0, <2>1, <3>2, <4>2 DEF CachesOK, EvictionFindsVictim
      <3>4. CASE th' = [th EXCEPT ![t].content = known, ![t].pc = "putstat"] /\ UNCHANGED served
        <4> DEFINE c == [th[t] EXCEPT !.content = known, !.pc = "putstat"]
        <4>1. th' = [th EXCEPT ![t] = c]
          BY <3>4
        <4>2. "putstat" \in CachePoints
          BY DEF CachePoints, Working
        <4>3. c \in CallType /\ c.pc = "putstat" /\ c.content = known /\ c.todo = th[t].todo
          BY <1>0, <2>4, <4>2, ZenonT(60) DEF CallType
        <4> HIDE DEF c
        <4>4. /\ th' \in [Threads -> CallType] /\ th'[t] = c
              /\ \A u \in Threads : u # t => th'[u] = th[u]
          BY <1>0, <4>1, <4>3
        <4>5. CallsOK'
          BY <1>0, <2>3, <2>6, <3>4, <4>3, <4>4, CallsKept
        <4> QED BY <1>0, <2>1, <3>2, <4>5 DEF CachesOK, EvictionFindsVictim
      <3> QED BY <3>1, <3>3, <3>4
    <2> QED BY <2>5, <2>6
  <1>8. CASE StatForPut(t)
    <2> DEFINE v == Key(t)
    <2>1. UNCHANGED <<backend, rows, order, index, repo_mtime, parsed, kept, hist>> /\ th[t].pc = "putstat"
      BY <1>8 DEF StatForPut
    <2>2. th[t].pc \in Working /\ "put" \in CachePoints
      BY <2>1 DEF Working, CachePoints
    <2>3. v \in PkgVersions /\ th[t].todo # {} /\ th[t].content # 0 /\ th[t].content \in Contents \cup {0}
      BY <1>0, <2>1, <2>2, KeyType DEF CallsOK, CallType
    <2> HIDE DEF v
    <2>4. CASE tree[v] = 0
      <3>1. Serve(t, v, th[t].content, TRUE) /\ Advance(t, TRUE)
        BY <1>8, <2>4 DEF StatForPut, v
      <3>2. served' \in ServedType
        BY <1>0, <2>3, <3>1, ServeMoves
      <3>3. CallsOK'
        BY <3>1, <3>2, AdvanceKept
      <3> QED BY <1>0, <2>1, <3>3 DEF CachesOK, EvictionFindsVictim
    <2>5. CASE tree[v] # 0
      <3> DEFINE m == StoredMtime(Mtime[tree[v]])
                 c == [th[t] EXCEPT !.mtime = m, !.pc = "put"]
      <3>1. th' = [th EXCEPT ![t] = c] /\ UNCHANGED served
        BY <1>8, <2>5 DEF StatForPut, v
      <3>2. m \in Times
        BY <2>3, <2>5, StoredType DEF TreeOK
      <3> HIDE DEF m
      <3>3. c \in CallType /\ c.pc = "put" /\ c.content = th[t].content /\ c.todo = th[t].todo
        BY <1>0, <2>2, <3>2 DEF CallType
      <3> HIDE DEF c
      <3>4. /\ th' \in [Threads -> CallType] /\ th'[t] = c
            /\ \A u \in Threads : u # t => th'[u] = th[u]
        BY <1>0, <3>1, <3>3
      <3>5. CallsOK'
        BY <1>0, <2>3, <3>1, <3>3, <3>4, CallsKept
      <3> QED BY <1>0, <2>1, <3>5 DEF CachesOK, EvictionFindsVictim
    <2> QED BY <2>4, <2>5
  <1>9. CASE CachePackage(t)
    <2>1. /\ UNCHANGED <<backend, index, repo_mtime, parsed, kept, hist>> /\ th[t].pc = "put"
          /\ PutRow(Key(t), packageToEntry(t)) /\ Serve(t, Key(t), th[t].content, TRUE) /\ Advance(t, TRUE)
      BY <1>9 DEF CachePackage
    <2>2. th[t].pc \in Working
      BY <2>1 DEF Working
    <2>3. Key(t) \in PkgVersions /\ th[t].content \in Contents /\ th[t].mtime \in Times
      BY <1>0, <2>1, <2>2, KeyType DEF CallsOK, CallType
    <2>4. packageToEntry(t) \in Row
      BY <2>3 DEF packageToEntry, Row
    <2>5. CachesOK' /\ EvictionFindsVictim'
      <3>1. RowsKept({packageToEntry(t)})
        BY <2>1, <2>3, PutKeeps
      <3>2. /\ index' \in SUBSET PkgVersions /\ repo_mtime' \in Int
            /\ parsed' \in [PkgVersions -> Contents \cup {0}]
            /\ kept' \in [PkgVersions -> Contents \cup {0}]
        BY <2>1 DEF CachesOK
      <3> QED BY <2>1, <2>4, <3>1, <3>2, RowsTypes
    <2>6. CallsOK'
      <3>1. served' \in ServedType
        BY <1>0, <2>1, <2>3, ServeMoves
      <3> QED BY <2>1, <3>1, AdvanceKept
    <2> QED BY <1>0, <2>1, <2>5, <2>6
  <1>10. CASE LoadUncached(t)
    <2>1. UNCHANGED <<backend, rows, order, index, repo_mtime, parsed, hist>> /\ Idle(t)
      BY <1>10 DEF LoadUncached
    <2>2. served' \in ServedType
      <3>1. CASE Present = {}
        BY <1>0, <1>10, <3>1 DEF LoadUncached
      <3>2. CASE Present # {}
        <4>1. PICK v \in Loaded(t) : Serve(t, v, repoParse(v), TRUE)
          BY <1>10, <3>2 DEF LoadUncached
        <4>2. v \in PkgVersions
          BY LoadedPresent
        <4> QED BY <1>0, <4>1, <4>2, ParseType, ServeMoves
      <3> QED BY <3>1, <3>2
    <2>3. CallsOK'
      BY <1>0, <2>1, <2>2, IdleMoves, NoCallType, RestKept
    <2>4. kept' \in [PkgVersions -> Contents \cup {0}]
      <3>1. kept' = [v \in PkgVersions |-> IF v \in Loaded(t) THEN repoParse(v) ELSE kept[v]]
        BY <1>10 DEF LoadUncached
      <3>2. \A v \in PkgVersions : repoParse(v) \in Contents \cup {0} /\ kept[v] \in Contents \cup {0}
        BY ParseType DEF CachesOK
      <3> QED BY <3>1, <3>2
    <2> QED BY <1>0, <2>1, <2>3, <2>4 DEF CachesOK, EvictionFindsVictim
  <1> QED BY <1>2, <1>3, <1>4, <1>5, <1>6, <1>7, <1>8, <1>9, <1>10

\* The steps of EnsureCache, RebuildCache, InvalidateCache and InvalidatePackage.
LEMMA MaintainTypes ==
    ASSUME CacheTypeOK, EvictionFindsVictim, NEW t \in Threads, UNCHANGED backend,
           \/ EnsureCache(t) \/ RebuildCache(t) \/ InvalidateCache(t) \/ InvalidatePackage(t)
           \/ IndexIsValid(t) \/ ClearIndex(t) \/ ScanRepository(t) \/ AddBatch(t) \/ SetRepoMtime(t)
           \/ ForgetRows(t) \/ ForgetIndex(t) \/ ForgetPackage(t)
    PROVE  CachesOK' /\ CallsOK' /\ hist' \in HistType /\ EvictionFindsVictim'
  <1> USE DEF CacheTypeOK
  <1>0. th \in [Threads -> CallType] /\ served \in ServedType /\ hist \in HistType
    BY DEF CallsOK, TreeOK
  <1>a. \A pc \in {"idle", "isvalid", "clear", "forget", "forgetpackage", "forgetindex", "scan", "add", "setmtime"} :
          pc \in CachePoints /\ pc \notin Working
    BY DEF CachePoints, Working, Rebuilding
  <1>b. {"EnsureCache", "RebuildCache", "InvalidateCache", "InvalidatePackage"} \subseteq Operations
    BY DEF Operations
  <1>1. CASE EnsureCache(t) \/ RebuildCache(t) \/ InvalidateCache(t) \/ InvalidatePackage(t)
    <2>1. PICK op \in Operations, pc \in {"isvalid", "clear", "forget", "forgetpackage"} : Maintain(t, op, pc)
      BY <1>1, <1>b DEF EnsureCache, RebuildCache, InvalidateCache, InvalidatePackage
    <2>2. UNCHANGED <<rows, order, index, repo_mtime, parsed, kept, served>>
      BY <2>1 DEF Maintain
    <2>a. pc \in CachePoints /\ pc \notin Working
      BY <1>a
    <2>3. /\ th' \in [Threads -> CallType] /\ hist' \in HistType /\ th'[t].pc = pc
          /\ \A u \in Threads : u # t => th'[u] = th[u]
      BY <2>1, <2>a, MaintainMoves
    <2>4. CallsOK'
      BY <1>0, <1>a, <2>1, <2>2, <2>3, RestKept
    <2> QED BY <2>2, <2>3, <2>4 DEF CachesOK, EvictionFindsVictim
  <1>2. ASSUME UNCHANGED served,
               Idle(t) \/ \E pc \in {"clear", "scan", "setmtime", "forgetindex"} : Goto(t, pc)
        PROVE  CallsOK'
    <2>1. CASE Idle(t)
      BY <1>0, <1>2, <2>1, IdleMoves, NoCallType, RestKept
    <2>2. ASSUME NEW pc \in {"clear", "scan", "setmtime", "forgetindex"}, Goto(t, pc)
          PROVE  CallsOK'
      <3>1. /\ th' \in [Threads -> CallType] /\ th'[t].pc = pc
            /\ \A u \in Threads : u # t => th'[u] = th[u]
        BY <1>0, <1>a, <2>2, GotoMoves
      <3> QED BY <1>0, <1>2, <1>a, <2>2, <3>1, RestKept
    <2> QED BY <1>2, <2>1, <2>2
  <1>3. CASE IndexIsValid(t)
    <2>1. UNCHANGED <<rows, order, index, repo_mtime, parsed, kept, served>>
      BY <1>3 DEF IndexIsValid
    <2>2. Idle(t) \/ Goto(t, "clear")
      BY <1>3 DEF IndexIsValid
    <2>3. hist' \in HistType
      BY <1>0, <1>3 DEF IndexIsValid, HistType
    <2>4. CallsOK'
      BY <1>2, <2>1, <2>2
    <2> QED BY <2>1, <2>3, <2>4 DEF CachesOK, EvictionFindsVictim
  <1>4. CASE ClearIndex(t) \/ ForgetIndex(t)
    <2>1. UNCHANGED <<rows, order, repo_mtime, parsed, kept, served, hist>> /\ index' = {}
          /\ (Goto(t, "scan") \/ Idle(t))
      BY <1>4 DEF ClearIndex, ForgetIndex
    <2>2. CallsOK'
      BY <1>2, <2>1
    <2> QED BY <1>0, <2>1, <2>2 DEF CachesOK, EvictionFindsVictim
  <1>5. CASE ScanRepository(t)
    <2> DEFINE c == [th[t] EXCEPT !.found = Present, !.pc = "add"]
    <2>1. UNCHANGED <<rows, order, index, repo_mtime, parsed, kept, served, hist>> /\ th' = [th EXCEPT ![t] = c]
      BY <1>5 DEF ScanRepository
    <2>2. Present \in SUBSET PkgVersions
      BY DEF Present
    <2>a. "add" \in CachePoints
      BY DEF CachePoints, Rebuilding
    <2>3. c \in CallType /\ c.pc = "add"
      <3>1. th[t] \in CallType
        BY <1>0
      <3>2. [th[t] EXCEPT !.found = Present] \in CallType
        BY <2>2, <3>1 DEF CallType
      <3>3. c = [[th[t] EXCEPT !.found = Present] EXCEPT !.pc = "add"]
        BY <3>1 DEF CallType
      <3>4. [[th[t] EXCEPT !.found = Present] EXCEPT !.pc = "add"] \in CallType
        BY <2>a, <3>2 DEF CallType
      <3>5. [[th[t] EXCEPT !.found = Present] EXCEPT !.pc = "add"].pc = "add"
        BY <3>2 DEF CallType
      <3> HIDE DEF c
      <3> QED BY <3>3, <3>4, <3>5
    <2> HIDE DEF c
    <2>4. /\ th' \in [Threads -> CallType] /\ th'[t].pc \notin Working
          /\ \A u \in Threads : u # t => th'[u] = th[u]
      BY <1>0, <1>a, <2>1, <2>3
    <2>5. CallsOK'
      BY <1>0, <2>1, <2>4, RestKept
    <2> QED BY <1>0, <2>1, <2>5 DEF CachesOK, EvictionFindsVictim
  <1>6. CASE AddBatch(t)
    <2>1. UNCHANGED <<rows, order, repo_mtime, parsed, kept, served, hist>>
          /\ index' = index \cup th[t].found /\ Goto(t, "setmtime")
      BY <1>6 DEF AddBatch
    <2>2. index' \in SUBSET PkgVersions
      BY <1>0, <2>1 DEF CachesOK, CallType
    <2>3. CallsOK'
      BY <1>2, <2>1
    <2> QED BY <1>0, <2>1, <2>2, <2>3 DEF CachesOK, EvictionFindsVictim
  <1>7. CASE SetRepoMtime(t)
    <2>1. UNCHANGED <<rows, order, index, kept, served>> /\ repo_mtime' = root /\ Idle(t)
      BY <1>7 DEF SetRepoMtime
    <2>2. parsed' \in [PkgVersions -> Contents \cup {0}]
      BY <1>7 DEF SetRepoMtime, CachesOK
    <2>3. hist' \in HistType
      <3>1. hist' = [hist EXCEPT !.ensured = hist.ensured \/ th[t].op = "EnsureCache"]
        BY <1>7 DEF SetRepoMtime
      <3>2. (hist.ensured \/ th[t].op = "EnsureCache") \in BOOLEAN
        OBVIOUS
      <3> QED BY <1>0, <3>1, <3>2 DEF HistType
    <2>4. CallsOK'
      BY <1>2, <2>1
    <2> QED BY <2>1, <2>2, <2>3, <2>4 DEF CachesOK, EvictionFindsVictim, TreeOK
  <1>8. CASE ForgetRows(t) \/ ForgetPackage(t)
    <2>1. /\ UNCHANGED <<index, repo_mtime, kept, served, hist>>
          /\ memoryInvalidate \/ sqliteInvalidate \/ memoryInvalidateAll \/ sqliteInvalidateAll
          /\ Goto(t, "forgetindex") \/ Idle(t)
      BY <1>8 DEF ForgetRows, ForgetPackage
    <2>2. parsed' \in [PkgVersions -> Contents \cup {0}]
      BY <1>8 DEF ForgetRows, ForgetPackage, CachesOK
    <2>3. RowsKept({})
      BY <2>1, InvalidateKeeps
    <2>4. CachesOK' /\ EvictionFindsVictim'
      BY <2>1, <2>2, <2>3, RowsTypes DEF CachesOK
    <2>5. CallsOK'
      BY <1>2, <2>1
    <2> QED BY <1>0, <2>1, <2>4, <2>5
  <1> QED BY <1>1, <1>3, <1>4, <1>5, <1>6, <1>7, <1>8

\* A process begins and ends, and the tree changes.
LEMMA ProcessTypes ==
    ASSUME CacheTypeOK, EvictionFindsVictim,
           \/ OpenRepository \/ ProcessEnds
           \/ \E v \in PkgVersions, gone, bump \in BOOLEAN : EditTree(v, gone, bump)
    PROVE  CacheTypeOK' /\ EvictionFindsVictim'
  <1> USE DEF CacheTypeOK
  <1>1. CASE OpenRepository
    <2>1. /\ UNCHANGED <<tree, md5, root, backend, rows, order, index, repo_mtime, parsed, kept, th, served>>
          /\ running' = TRUE /\ hist' = [hist EXCEPT !.processes = @ + 1, !.ensured = FALSE]
      BY <1>1 DEF OpenRepository
    <2>2. hist' \in HistType
      <3>1. hist \in HistType /\ hist.processes + 1 \in Nat /\ FALSE \in BOOLEAN
        BY DEF TreeOK, HistType
      <3> QED BY <2>1, <3>1 DEF HistType
    <2>3. TreeOK'
      BY <2>1, <2>2 DEF TreeOK
    <2> QED BY <2>1, <2>3 DEF CachesOK, CallsOK, EvictionFindsVictim
  <1>2. CASE ProcessEnds
    <2>1. /\ UNCHANGED <<tree, md5, root, backend, index, repo_mtime, hist>> /\ running' = FALSE
          /\ parsed' = [v \in PkgVersions |-> 0] /\ kept' = [v \in PkgVersions |-> 0]
          /\ th' = [t \in Threads |-> NoCall] /\ order' = <<>> /\ served' = NoneServed
          /\ rows' = IF backend = "memory" THEN <<>> ELSE rows
      BY <1>2 DEF ProcessEnds
    <2>2. TreeOK'
      BY <2>1 DEF TreeOK
    <2>3. order' \in Seq(PkgVersions) /\ DOMAIN <<>> = {}
      BY <2>1, EmptySeq
    <2>4. CachesOK'
      BY <2>1, <2>3 DEF CachesOK
    <2>5. CallsOK'
      <3>1. "none" \in Operations /\ {"touch", "stat", "putstat", "put"} \subseteq Working
        BY DEF Operations, Working
      <3>2. NoneServed \in ServedType
        BY <3>1 DEF NoneServed, ServedType
      <3>3. th' \in [Threads -> CallType] /\ \A t \in Threads : th'[t].pc \notin Working
        BY <2>1, NoCallType
      <3> QED BY <2>1, <3>1, <3>2, <3>3 DEF CallsOK
    <2>6. EvictionFindsVictim'
      <3> SUFFICES ASSUME backend = "memory"
                   PROVE  DOMAIN rows' \subseteq Range(order') /\ Cardinality(DOMAIN rows') <= MaxEntries
        BY <2>1 DEF EvictionFindsVictim
      <3>1. DOMAIN rows' = {} /\ Cardinality(DOMAIN rows') = 0
        BY <2>1, <2>3, FS_EmptySet
      <3> QED BY <3>1, SizesAssumption
    <2> QED BY <2>1, <2>2, <2>4, <2>5, <2>6
  <1>3. ASSUME NEW v \in PkgVersions, NEW gone \in BOOLEAN, NEW bump \in BOOLEAN, EditTree(v, gone, bump)
        PROVE  CacheTypeOK' /\ EvictionFindsVictim'
    <2>1. /\ UNCHANGED <<backend, running, rows, order, index, repo_mtime, parsed, kept, th, served>>
          /\ hist.edits < MaxEdits
          /\ tree' = [tree EXCEPT ![v] = IF gone THEN 0 ELSE NumVersions + hist.edits + 1]
          /\ root' = root \/ root' = root + 1
          /\ \E entry \in {0, md5[v], tree'[v]} : md5' = [md5 EXCEPT ![v] = entry]
          /\ hist' = [hist EXCEPT !.edits = @ + 1, !.quiet = @ /\ ~running, !.bumped = @ /\ bump,
                                  !.stale = @ \cup {w \in PkgVersions : md5'[w] \notin {0, tree'[w]}}]
      BY <1>3 DEF EditTree
    <2>2. hist.edits \in Nat
      BY DEF TreeOK, HistType
    <2>3. NumVersions + hist.edits + 1 \in Contents
      BY <2>1, <2>2, SizesAssumption DEF Contents
    <2>4. tree' \in [PkgVersions -> Contents \cup {0}]
      BY <2>1, <2>3 DEF TreeOK
    <2>5. hist' \in HistType
      <3> DEFINE stale == hist.stale \cup {w \in PkgVersions : md5'[w] \notin {0, tree'[w]}}
      <3>1. (hist.quiet /\ ~running) \in BOOLEAN /\ (hist.bumped /\ bump) \in BOOLEAN /\ hist.edits + 1 \in Nat
        BY <2>2
      <3>2. stale \in SUBSET PkgVersions
        BY DEF TreeOK, HistType
      <3>3. hist' = [hist EXCEPT !.edits = hist.edits + 1, !.quiet = hist.quiet /\ ~running,
                                 !.bumped = hist.bumped /\ bump, !.stale = stale]
        BY <2>1
      <3> HIDE DEF stale
      <3> QED BY <3>1, <3>2, <3>3 DEF TreeOK, HistType
    <2>7. md5' \in [PkgVersions -> Contents \cup {0}]
      <3>1. \A entry \in {0, md5[v], tree'[v]} : entry \in Contents \cup {0}
        BY <2>4 DEF TreeOK
      <3> QED BY <2>1, <3>1 DEF TreeOK
    <2>6. TreeOK'
      BY <2>1, <2>4, <2>5, <2>7 DEF TreeOK
    <2> QED BY <2>1, <2>6 DEF CachesOK, CallsOK, EvictionFindsVictim
  <1> QED BY <1>1, <1>2, <1>3

\* Every step keeps the types, and the order ahead of the rows.
LEMMA CacheNextTypes ==
    ASSUME CacheTypeOK, EvictionFindsVictim, [CacheNext]_cacheVars
    PROVE  CacheTypeOK' /\ EvictionFindsVictim'
  <1>1. ASSUME NEW t \in Threads, ThreadStep(t)
        PROVE  CacheTypeOK' /\ EvictionFindsVictim'
    <2>1. running /\ UNCHANGED <<tree, md5, root, backend, running>>
      BY <1>1, StepFrame
    <2>2. CachesOK' /\ CallsOK' /\ hist' \in HistType /\ EvictionFindsVictim'
      BY <1>1, <2>1, LoadTypes, MaintainTypes DEF ThreadStep
    <2> QED BY <2>1, <2>2 DEF CacheTypeOK, TreeOK
  <1>2. CASE UNCHANGED cacheVars
    BY <1>2 DEF cacheVars, CacheTypeOK, TreeOK, CachesOK, CallsOK, EvictionFindsVictim
  <1> QED BY <1>1, <1>2, ProcessTypes DEF CacheNext

-----------------------------------------------------------------------------
(* What was read is what the tree holds *)

\* A thread leaves the history of the tree alone.
LEMMA HistFrame ==
    ASSUME CacheTypeOK, NEW t \in Threads, ThreadStep(t)
    PROVE  hist'.quiet = hist.quiet /\ hist'.bumped = hist.bumped /\ hist'.stale = hist.stale
  <1>1. hist \in HistType
    BY DEF CacheTypeOK, TreeOK
  <1>2. \/ hist' = hist \/ hist' = [hist EXCEPT !.calls = hist.calls + 1]
        \/ hist' = [hist EXCEPT !.ensured = TRUE]
        \/ hist' = [hist EXCEPT !.ensured = hist.ensured \/ th[t].op = "EnsureCache"]
    BY DEF ThreadStep, LoadPackage, GetAllVersions, Call, EnsureCache, RebuildCache, InvalidateCache,
       InvalidatePackage, Maintain, GetRow, TouchRow, CheckRow, DropRow, ParseEbuild, StatForPut, CachePackage,
       LoadUncached, IndexIsValid, ClearIndex, ScanRepository, AddBatch, SetRepoMtime, ForgetRows, ForgetIndex,
       ForgetPackage
  <1> QED BY <1>1, <1>2 DEF HistType

\* ReadCurrent, part by part.
ParsedCurrent ==
    \A v \in PkgVersions \ hist.stale :
      md5[v] \in {0, tree[v]} /\ kept[v] \in {0, tree[v]} /\ parsed[v] \in {0, tree[v]}
RowsCurrent == \A v \in DOMAIN rows \ hist.stale : rows[v].mtime = StoredMtime(Mtime[rows[v].content])
CallCurrent(t) ==
    th[t].pc \in Working /\ Key(t) \notin hist.stale =>
      /\ th[t].pc \in {"touch", "stat"} => th[t].mtime = StoredMtime(Mtime[th[t].entry])
      /\ th[t].pc \in {"putstat", "put"} => th[t].content = tree[Key(t)]
      /\ th[t].pc = "put" => th[t].mtime = StoredMtime(Mtime[th[t].content])
\* The parts make up ReadCurrent.
LEMMA ReadParts ==
    ReadCurrent <=> (hist.quiet => ParsedCurrent /\ RowsCurrent /\ \A t \in Threads : CallCurrent(t))
  BY DEF ReadCurrent, ParsedCurrent, RowsCurrent, CallCurrent

\* A call that is neither checking a row nor keeping a package has nothing to keep.
LEMMA RestCurrent ==
    ASSUME NEW t, th'[t].pc \notin {"touch", "stat", "putstat", "put"}
    PROVE  CallCurrent(t)'
  BY DEF CallCurrent

\* A call begins with nothing.
LEMMA CallBegins ==
    ASSUME CacheTypeOK, NEW t \in Threads, NEW op \in Operations, NEW todo \in SUBSET PkgVersions,
           Call(t, op, todo)
    PROVE  CallCurrent(t)' /\ \A u \in Threads : u # t => th'[u] = th[u]
  <1>1. /\ th'[t].pc = (IF todo = {} THEN "base" ELSE "get")
        /\ \A u \in Threads : u # t => th'[u] = th[u]
    BY CallMoves
  <1>2. th'[t].pc \in {"base", "get"}
    BY <1>1
  <1> QED BY <1>1, <1>2, RestCurrent

\* After one version a call holds nothing.
LEMMA AdvanceCurrent ==
    ASSUME th \in [Threads -> CallType], NEW t \in Threads, NEW found \in BOOLEAN, Advance(t, found)
    PROVE  CallCurrent(t)' /\ \A u \in Threads : u # t => th'[u] = th[u]
  <1>1. /\ \A u \in Threads : u # t => th'[u] = th[u]
        /\ th'[t] = NoCall \/ th'[t].pc = "base" \/ th'[t].pc = "get"
    BY AdvanceMoves
  <1>2. NoCall.pc = "idle"
    BY DEF NoCall
  <1> QED BY <1>1, <1>2, RestCurrent

\* A step of one call in a tree that stays keeps ReadCurrent if its call does.
LEMMA ReadKept ==
    ASSUME ReadCurrent, hist.quiet, UNCHANGED <<tree, backend>>, hist'.stale = hist.stale, NEW t \in Threads,
           \A u \in Threads : u # t => th'[u] = th[u],
           CallCurrent(t)', ParsedCurrent', RowsCurrent'
    PROVE  ReadCurrent'
  <1>1. ASSUME NEW u \in Threads, u # t PROVE CallCurrent(u)'
    <2>1. CallCurrent(u) /\ th'[u] = th[u]
      BY <1>1, ReadParts
    <2> QED BY <2>1 DEF CallCurrent, Key, StoredMtime
  <1>2. \A u \in Threads : CallCurrent(u)'
    BY <1>1
  <1> QED BY <1>2 DEF ReadCurrent, ParsedCurrent, RowsCurrent, CallCurrent

\* The rows stay current if the new ones are.
LEMMA RowsKeptCurrent ==
    ASSUME RowsCurrent, backend' = backend, hist'.stale = hist.stale, NEW v, OthersKept(v),
           v \in DOMAIN rows' /\ v \notin hist.stale => rows'[v].mtime = StoredMtime(Mtime[rows'[v].content])
    PROVE  RowsCurrent'
  <1> SUFFICES ASSUME NEW w \in DOMAIN rows' \ hist.stale
               PROVE  rows'[w].mtime = StoredMtime(Mtime[rows'[w].content])
    BY DEF RowsCurrent, StoredMtime
  <1> QED BY DEF OthersKept, RowsCurrent

\* Where md5-cache and what is kept are current, so is what is parsed.
LEMMA ParseCurrent ==
    ASSUME ParsedCurrent, NEW v \in PkgVersions, v \notin hist.stale
    PROVE  repoParse(v) = tree[v]
  BY DEF ParsedCurrent, repoParse

\* A valid entry is the content that the tree has: no other has its time stamp.
LEMMA ValidIsCurrent ==
    ASSUME CacheTypeOK, ReadCurrent, hist.quiet, NEW t \in Threads, th[t].pc = "stat", IsValid(t),
           Key(t) \notin hist.stale
    PROVE  th[t].entry = tree[Key(t)]
  <1> DEFINE e == th[t].entry
             c == tree[Key(t)]
  <1>1. th[t].pc \in Working
    BY DEF Working
  <1>2. Key(t) \in PkgVersions /\ c # 0
    BY <1>1, KeyType DEF CacheTypeOK, IsValid
  <1>3. c \in Contents
    BY <1>2 DEF CacheTypeOK, TreeOK
  <1>4. e \in Contents
    BY DEF CacheTypeOK, CallsOK, CallType
  <1>5. StoredMtime(Mtime[e]) = Mtime[c]
    BY <1>1 DEF ReadCurrent, IsValid
  <1> HIDE DEF e, c
  <1>6. Mtime[c] \in {Mtime[e], <<Mtime[e][1], 0>>}
    BY <1>5 DEF StoredMtime
  <1> QED BY <1>3, <1>4, <1>6, MtimeAssumption DEF e, c

\* The steps of LoadPackage and GetAllVersions, while the tree is left alone.
LEMMA LoadCurrent ==
    ASSUME CacheTypeOK, EvictionFindsVictim, ReadCurrent, ServedCurrent, hist.quiet,
           UNCHANGED <<tree, md5, backend>>, hist'.stale = hist.stale, NEW t \in Threads,
           \/ LoadPackage(t) \/ GetAllVersions(t) \/ GetRow(t) \/ TouchRow(t) \/ CheckRow(t)
           \/ DropRow(t) \/ ParseEbuild(t) \/ StatForPut(t) \/ CachePackage(t) \/ LoadUncached(t)
    PROVE  ReadCurrent' /\ ServedCurrent'
  <1>0. th \in [Threads -> CallType] /\ TreeOK /\ CachesOK /\ CallsOK
    BY DEF CacheTypeOK, CallsOK
  <1>a. ParsedCurrent /\ RowsCurrent /\ CallCurrent(t)
    BY ReadParts
  <1>b. UNCHANGED <<parsed, kept>> => ParsedCurrent'
    BY <1>a DEF ParsedCurrent
  <1>c. rows' = rows => RowsCurrent'
    BY <1>a DEF RowsCurrent, StoredMtime
  <1>d. served' = served => ServedCurrent'
    BY DEF ServedCurrent
  <1>1. ASSUME NEW op \in Operations, NEW todo \in SUBSET PkgVersions, Call(t, op, todo)
        PROVE  ReadCurrent' /\ ServedCurrent'
    <2>1. UNCHANGED <<rows, parsed, kept, served>>
      BY <1>1 DEF Call
    <2>2. CallCurrent(t)' /\ \A u \in Threads : u # t => th'[u] = th[u]
      BY <1>1, CallBegins
    <2> QED BY <1>b, <1>c, <1>d, <2>1, <2>2, ReadKept
  <1>2. CASE LoadPackage(t) \/ GetAllVersions(t)
    <2>1. {"LoadPackage", "GetAllVersions"} \subseteq Operations
      BY DEF Operations
    <2>2. index \in SUBSET PkgVersions /\ (index # {} => {Max(index)} \in SUBSET PkgVersions)
      BY <1>0, VersionsMinMax DEF CachesOK
    <2>3. \E op \in Operations, todo \in SUBSET PkgVersions : Call(t, op, todo)
      BY <1>2, <2>1, <2>2 DEF LoadPackage, GetAllVersions, LookupPackage
    <2> QED BY <1>1, <2>3
  <1>3. CASE GetRow(t)
    <2>1. UNCHANGED <<rows, parsed, kept, served>>
      BY <1>3 DEF GetRow
    <2>2. /\ \A u \in Threads : u # t => th'[u] = th[u]
          /\ \/ th'[t].pc = "parse"
             \/ /\ th'[t].pc \in {"touch", "stat"} /\ Key(t) \in DOMAIN rows
                /\ th'[t].entry = rows[Key(t)].content /\ th'[t].mtime = rows[Key(t)].mtime
                /\ th'[t].todo = th[t].todo
      BY <1>3, GetRowMoves
    <2>3. CallCurrent(t)'
      <3>1. CASE th'[t].pc = "parse"
        BY <3>1, RestCurrent
      <3>2. CASE th'[t].pc \in {"touch", "stat"}
        <4>1. Key(t)' = Key(t)
          BY <2>2, <3>2 DEF Key
        <4>2. Key(t) \notin hist.stale => th'[t].mtime = StoredMtime(Mtime[th'[t].entry])
          BY <1>a, <2>2, <3>2 DEF RowsCurrent
        <4> QED BY <3>2, <4>1, <4>2 DEF CallCurrent, StoredMtime
      <3> QED BY <2>2, <3>1, <3>2
    <2> QED BY <1>b, <1>c, <1>d, <2>1, <2>2, <2>3, ReadKept
  <1>4. CASE TouchRow(t)
    <2>1. UNCHANGED <<rows, parsed, kept, served>> /\ th[t].pc = "touch" /\ Goto(t, "stat")
      BY <1>4 DEF TouchRow
    <2>2. "stat" \in CachePoints
      BY DEF Working, CachePoints
    <2>3. /\ th'[t].pc = "stat" /\ SameCall(t)
          /\ \A u \in Threads : u # t => th'[u] = th[u]
      BY <1>0, <2>1, <2>2, GotoMoves
    <2>4. CallCurrent(t)'
      <3>1. Key(t)' = Key(t) /\ th[t].pc \in Working
        BY <2>1, <2>3 DEF Key, SameCall, Working
      <3> QED BY <1>a, <2>1, <2>3, <3>1 DEF CallCurrent, SameCall, StoredMtime
    <2> QED BY <1>b, <1>c, <1>d, <2>1, <2>3, <2>4, ReadKept
  <1>5. CASE CheckRow(t)
    <2>1. UNCHANGED <<rows, parsed, kept>> /\ th[t].pc = "stat"
      BY <1>5 DEF CheckRow
    <2>2. th[t].pc \in Working /\ "delete" \in CachePoints
      BY <2>1 DEF Working, CachePoints
    <2>3. CASE IsValid(t)
      <3>1. entryToPackage(t) /\ Advance(t, TRUE)
        BY <1>5, <2>3 DEF CheckRow
      <3>2. th[t].entry \in Contents \cup {0} /\ Key(t) \in PkgVersions
        BY <1>0, <2>2, KeyType DEF CallType
      <3>3. served'.content = th[t].entry /\ served'.now = tree[Key(t)] /\ served'.version = Key(t)
        BY <1>0, <3>1, <3>2, ServeMoves DEF entryToPackage
      <3>4. ServedCurrent'
        BY <2>1, <2>3, <3>3, ValidIsCurrent DEF ServedCurrent
      <3> QED BY <1>0, <1>b, <1>c, <2>1, <3>1, <3>4, AdvanceCurrent, ReadKept
    <2>4. CASE ~IsValid(t)
      <3>1. Goto(t, "delete") /\ UNCHANGED served
        BY <1>5, <2>4 DEF CheckRow
      <3>2. /\ th'[t].pc = "delete" /\ \A u \in Threads : u # t => th'[u] = th[u]
        BY <1>0, <2>2, <3>1, GotoMoves
      <3>3. CallCurrent(t)'
        BY <3>2, RestCurrent
      <3> QED BY <1>b, <1>c, <1>d, <2>1, <3>1, <3>2, <3>3, ReadKept
    <2> QED BY <2>3, <2>4
  <1>6. CASE DropRow(t)
    <2>1. UNCHANGED <<parsed, kept, served>> /\ DeleteRow(Key(t)) /\ Goto(t, "parse")
      BY <1>6 DEF DropRow
    <2>2. "parse" \in CachePoints
      BY DEF Working, CachePoints
    <2>3. th'[t].pc = "parse" /\ \A u \in Threads : u # t => th'[u] = th[u]
      BY <1>0, <2>1, <2>2, GotoMoves
    <2>4. CallCurrent(t)'
      BY <2>3, RestCurrent
    <2>5. RowsCurrent'
      <3>1. RowsKept({})
        BY <1>0, <2>1, DeleteKeeps
      <3>2. OthersKept(Key(t)) /\ (Key(t) \in DOMAIN rows' => rows'[Key(t)] = rows[Key(t)] /\ Key(t) \in DOMAIN rows)
        BY <3>1 DEF RowsKept, OthersKept
      <3> QED BY <1>a, <3>2, RowsKeptCurrent DEF RowsCurrent
    <2> QED BY <1>b, <1>d, <2>1, <2>3, <2>4, <2>5, ReadKept
  <1>7. CASE ParseEbuild(t)
    <2> DEFINE v == Key(t)
               known == IF parsed[v] # 0 THEN parsed[v] ELSE repoParse(v)
    <2>1. UNCHANGED rows /\ th[t].pc \in {"parse", "reparse"}
      BY <1>7 DEF ParseEbuild
    <2>2. th[t].pc \in Working /\ {"base", "reparse"} \subseteq CachePoints
      BY <2>1 DEF Working, CachePoints
    <2>3. v \in PkgVersions
      BY <1>0, <2>2, KeyType
    <2> HIDE DEF v
    <2>4. known \in Contents \cup {0} /\ (v \notin hist.stale => known = tree[v])
      <3>1. repoParse(v) \in Contents \cup {0} /\ (v \notin hist.stale => repoParse(v) = tree[v])
        BY <1>0, <1>a, <2>3, ParseType, ParseCurrent
      <3> QED BY <1>0, <1>a, <2>3, <3>1 DEF CachesOK, ParsedCurrent
    <2>5. CASE known = 0
      <3>1. UNCHANGED <<parsed, kept, served>>
            /\ (Goto(t, "base") \/ Advance(t, FALSE) \/ Goto(t, "reparse"))
        BY <1>7, <2>5 DEF ParseEbuild, v
      <3>2. ASSUME NEW pc \in {"base", "reparse"}, Goto(t, pc)
            PROVE  CallCurrent(t)' /\ \A u \in Threads : u # t => th'[u] = th[u]
        <4>1. th'[t].pc = pc /\ \A u \in Threads : u # t => th'[u] = th[u]
          BY <1>0, <2>2, <3>2, GotoMoves
        <4> QED BY <4>1, RestCurrent
      <3>3. CallCurrent(t)' /\ \A u \in Threads : u # t => th'[u] = th[u]
        BY <1>0, <3>1, <3>2, AdvanceCurrent
      <3> QED BY <1>b, <1>c, <1>d, <2>1, <3>1, <3>3, ReadKept
    <2>6. CASE known # 0
      <3>1. /\ parsed' = [parsed EXCEPT ![v] = known]
            /\ kept' = kept \/ kept' = [kept EXCEPT ![v] = known]
            /\ \/ Serve(t, v, known, TRUE) /\ Advance(t, TRUE)
               \/ th' = [th EXCEPT ![t].content = known, ![t].pc = "putstat"] /\ UNCHANGED served
        BY <1>7, <2>6 DEF ParseEbuild, v
      <3> HIDE DEF known
      <3>2. ParsedCurrent'
        BY <1>0, <1>a, <2>3, <2>4, <3>1 DEF ParsedCurrent, CachesOK
      <3>3. CASE Serve(t, v, known, TRUE) /\ Advance(t, TRUE)
        <4>1. served'.content = known /\ served'.now = tree[v] /\ served'.version = v
          BY <1>0, <2>3, <2>4, <3>3, ServeMoves
        <4>2. ServedCurrent'
          BY <2>4, <4>1 DEF ServedCurrent
        <4> QED BY <1>0, <1>c, <2>1, <3>2, <3>3, <4>2, AdvanceCurrent, ReadKept
      <3>4. CASE th' = [th EXCEPT ![t].content = known, ![t].pc = "putstat"] /\ UNCHANGED served
        <4> DEFINE c == [th[t] EXCEPT !.content = known, !.pc = "putstat"]
        <4>1. th' = [th EXCEPT ![t] = c]
          BY <3>4
        <4>2. c.pc = "putstat" /\ c.content = known /\ c.todo = th[t].todo
          BY <1>0 DEF CallType
        <4> HIDE DEF c
        <4>3. th'[t] = c /\ \A u \in Threads : u # t => th'[u] = th[u]
          BY <1>0, <4>1
        <4>4. Key(t)' = v
          BY <4>2, <4>3 DEF Key, v
        <4>5. CallCurrent(t)'
          BY <2>4, <4>2, <4>3, <4>4 DEF CallCurrent
        <4> QED BY <1>c, <1>d, <2>1, <3>2, <3>4, <4>3, <4>5, ReadKept
      <3> QED BY <3>1, <3>3, <3>4
    <2> QED BY <2>5, <2>6
  <1>8. CASE StatForPut(t)
    <2> DEFINE v == Key(t)
    <2>1. UNCHANGED <<rows, parsed, kept>> /\ th[t].pc = "putstat"
      BY <1>8 DEF StatForPut
    <2>2. v \in PkgVersions /\ th[t].content \in Contents \cup {0}
      BY <1>0, <2>1, KeyType DEF CallType, Working
    <2>a. v \notin hist.stale => th[t].content = tree[v]
      BY <1>a, <2>1 DEF CallCurrent, Working
    <2>b. CASE Serve(t, v, th[t].content, TRUE) /\ Advance(t, TRUE)
      <3>1. served'.content = th[t].content /\ served'.now = tree[v] /\ served'.version = v
        BY <1>0, <2>2, <2>b, ServeMoves
      <3>2. ServedCurrent'
        BY <2>a, <3>1 DEF ServedCurrent
      <3> QED BY <1>0, <1>b, <1>c, <2>1, <2>b, <3>2, AdvanceCurrent, ReadKept
    <2> DEFINE m == StoredMtime(Mtime[tree[v]])
               c == [th[t] EXCEPT !.mtime = m, !.pc = "put"]
    <2>3. CASE th' = [th EXCEPT ![t] = c] /\ UNCHANGED served
      <3>4. c.pc = "put" /\ c.content = th[t].content /\ c.todo = th[t].todo /\ c.mtime = m
        BY <1>0 DEF CallType
      <3> HIDE DEF c
      <3>5. th'[t] = c /\ \A u \in Threads : u # t => th'[u] = th[u]
        BY <1>0, <2>3
      <3>6. Key(t)' = v
        BY <3>4, <3>5 DEF Key
      <3>7. CallCurrent(t)'
        BY <2>a, <3>4, <3>5, <3>6 DEF CallCurrent, StoredMtime
      <3> QED BY <1>b, <1>c, <1>d, <2>1, <2>3, <3>5, <3>7, ReadKept
    <2> QED BY <1>8, <2>b, <2>3 DEF StatForPut
  <1>9. CASE CachePackage(t)
    <2>1. /\ UNCHANGED <<parsed, kept>> /\ th[t].pc = "put"
          /\ PutRow(Key(t), packageToEntry(t)) /\ Serve(t, Key(t), th[t].content, TRUE) /\ Advance(t, TRUE)
      BY <1>9 DEF CachePackage
    <2>2. th[t].pc \in Working
      BY <2>1 DEF Working
    <2>3. Key(t) \in PkgVersions /\ th[t].content \in Contents \cup {0}
      BY <1>0, <2>2, KeyType DEF CallType
    <2>4. Key(t) \notin hist.stale =>
            th[t].content = tree[Key(t)] /\ th[t].mtime = StoredMtime(Mtime[th[t].content])
      BY <1>a, <2>1, <2>2 DEF CallCurrent
    <2>5. RowsCurrent'
      <3> DEFINE e == packageToEntry(t)
      <3>1. RowsKept({e}) /\ OthersKept(Key(t))
        BY <1>0, <2>1, <2>3, PutKeeps
      <3>2. Key(t) \notin hist.stale => e.mtime = StoredMtime(Mtime[e.content])
        BY <2>4 DEF packageToEntry
      <3> HIDE DEF e
      <3>3. Key(t) \in DOMAIN rows' /\ Key(t) \notin hist.stale =>
              rows'[Key(t)].mtime = StoredMtime(Mtime[rows'[Key(t)].content])
        BY <1>a, <3>1, <3>2 DEF RowsKept, RowsCurrent
      <3> QED BY <1>a, <3>1, <3>3, RowsKeptCurrent
    <2>6. ServedCurrent'
      <3>1. served'.content = th[t].content /\ served'.now = tree[Key(t)] /\ served'.version = Key(t)
        BY <1>0, <2>1, <2>3, ServeMoves
      <3> QED BY <2>4, <3>1 DEF ServedCurrent
    <2> QED BY <1>0, <1>b, <2>1, <2>5, <2>6, AdvanceCurrent, ReadKept
  <1>10. CASE LoadUncached(t)
    <2>1. UNCHANGED <<rows, parsed>> /\ Idle(t)
      BY <1>10 DEF LoadUncached
    <2>2. ServedCurrent'
      <3>1. CASE Present = {}
        BY <1>10, <1>d, <3>1 DEF LoadUncached
      <3>2. CASE Present # {}
        <4>1. PICK v \in Loaded(t) : Serve(t, v, repoParse(v), TRUE)
          BY <1>10, <3>2 DEF LoadUncached
        <4>2. v \in PkgVersions
          BY LoadedPresent
        <4>3. served'.content = repoParse(v) /\ served'.now = tree[v] /\ served'.version = v
          BY <1>0, <4>1, <4>2, ParseType, ServeMoves
        <4> QED BY <1>a, <4>2, <4>3, ParseCurrent DEF ServedCurrent
      <3> QED BY <3>1, <3>2
    <2>3. th'[t].pc = "idle" /\ \A u \in Threads : u # t => th'[u] = th[u]
      BY <1>0, <2>1, IdleMoves DEF NoCall
    <2>4. CallCurrent(t)'
      BY <2>3, RestCurrent
    <2>5. ParsedCurrent'
      <3>1. kept' = [v \in PkgVersions |-> IF v \in Loaded(t) THEN repoParse(v) ELSE kept[v]]
        BY <1>10 DEF LoadUncached
      <3>2. \A v \in PkgVersions \ hist.stale : kept'[v] \in {0, tree[v]}
        BY <1>a, <3>1, ParseCurrent DEF ParsedCurrent
      <3> QED BY <1>a, <2>1, <3>2 DEF ParsedCurrent
    <2> QED BY <1>c, <2>1, <2>2, <2>3, <2>4, <2>5, ReadKept
  <1> QED BY <1>2, <1>3, <1>4, <1>5, <1>6, <1>7, <1>8, <1>9, <1>10

\* The steps of EnsureCache, RebuildCache, InvalidateCache and InvalidatePackage.
LEMMA MaintainCurrent ==
    ASSUME CacheTypeOK, EvictionFindsVictim, ReadCurrent, ServedCurrent, hist.quiet,
           UNCHANGED <<tree, md5, backend>>, hist'.stale = hist.stale, NEW t \in Threads,
           \/ EnsureCache(t) \/ RebuildCache(t) \/ InvalidateCache(t) \/ InvalidatePackage(t)
           \/ IndexIsValid(t) \/ ClearIndex(t) \/ ScanRepository(t) \/ AddBatch(t) \/ SetRepoMtime(t)
           \/ ForgetRows(t) \/ ForgetIndex(t) \/ ForgetPackage(t)
    PROVE  ReadCurrent' /\ ServedCurrent'
  <1>0. /\ th \in [Threads -> CallType] /\ CachesOK
        /\ ParsedCurrent /\ RowsCurrent
    BY ReadParts DEF CacheTypeOK, CallsOK
  <1>1. served' = served /\ kept' = kept
    BY DEF EnsureCache, RebuildCache, InvalidateCache, InvalidatePackage, Maintain, IndexIsValid, ClearIndex,
       ScanRepository, AddBatch, SetRepoMtime, ForgetRows, ForgetIndex, ForgetPackage
  <1>2. parsed' = parsed \/ parsed' = [v \in PkgVersions |-> 0]
    BY DEF EnsureCache, RebuildCache, InvalidateCache, InvalidatePackage, Maintain, IndexIsValid, ClearIndex,
       ScanRepository, AddBatch, SetRepoMtime, ForgetRows, ForgetIndex, ForgetPackage
  <1>3. rows' = rows \/ rows' = <<>>
    BY DEF EnsureCache, RebuildCache, InvalidateCache, InvalidatePackage, Maintain, IndexIsValid, ClearIndex,
       ScanRepository, AddBatch, SetRepoMtime, ForgetRows, ForgetIndex, ForgetPackage, memoryInvalidate,
       sqliteInvalidate, memoryInvalidateAll, sqliteInvalidateAll
  <1>4. \E c : /\ th' = [th EXCEPT ![t] = c] /\ c.pc \notin {"touch", "stat", "putstat", "put"}
    <2>1. CASE EnsureCache(t) \/ RebuildCache(t) \/ InvalidateCache(t) \/ InvalidatePackage(t)
      <3>1. PICK op \in Operations, pc \in {"isvalid", "clear", "forget", "forgetpackage"} : Maintain(t, op, pc)
        BY <2>1 DEF Operations, EnsureCache, RebuildCache, InvalidateCache, InvalidatePackage
      <3> DEFINE c == [NoCall EXCEPT !.op = op, !.pc = pc]
      <3>2. th' = [th EXCEPT ![t] = c]
        BY <3>1 DEF Maintain
      <3>3. c.pc = pc
        BY DEF NoCall
      <3> HIDE DEF c
      <3> QED BY <3>2, <3>3
    <2>2. CASE Idle(t)
      <3>1. NoCall.pc = "idle"
        BY DEF NoCall
      <3> QED BY <2>2, <3>1 DEF Idle
    <2>3. ASSUME NEW pc \in {"clear", "scan", "setmtime", "forgetindex"}, Goto(t, pc)
          PROVE  \E c : /\ th' = [th EXCEPT ![t] = c] /\ c.pc \notin {"touch", "stat", "putstat", "put"}
      <3> DEFINE c == [th[t] EXCEPT !.pc = pc]
      <3>1. th' = [th EXCEPT ![t] = c]
        BY <2>3 DEF Goto
      <3>2. c.pc = pc
        BY <1>0 DEF CallType
      <3> QED BY <3>1, <3>2
    <2>4. CASE ScanRepository(t)
      <3> DEFINE c == [th[t] EXCEPT !.found = Present, !.pc = "add"]
      <3>1. th' = [th EXCEPT ![t] = c]
        BY <2>4 DEF ScanRepository
      <3>2. c.pc = "add"
        BY <1>0 DEF CallType
      <3> QED BY <3>1, <3>2
    <2> QED BY <2>1, <2>2, <2>3, <2>4 DEF IndexIsValid, ClearIndex, AddBatch, SetRepoMtime, ForgetRows,
              ForgetIndex, ForgetPackage
  <1>5. CallCurrent(t)' /\ \A u \in Threads : u # t => th'[u] = th[u]
    BY <1>0, <1>4, RestCurrent
  <1>6. ParsedCurrent'
    BY <1>0, <1>1, <1>2 DEF ParsedCurrent
  <1>7. RowsCurrent'
    BY <1>0, <1>3 DEF RowsCurrent, StoredMtime
  <1>8. ServedCurrent'
    BY <1>0, <1>1 DEF ServedCurrent
  <1> QED BY <1>5, <1>6, <1>7, <1>8, ReadKept

\* Every step keeps ReadCurrent and ServedCurrent.  The tree changes under quiet only
\* while nothing runs, when nothing has been read or served; the rows are of their
\* own content, whatever the tree has.
LEMMA CacheNextCurrent ==
    ASSUME CacheTypeOK, EvictionFindsVictim, ReadCurrent, ServedCurrent, [CacheNext]_cacheVars
    PROVE  ReadCurrent' /\ ServedCurrent'
  <1>1. ASSUME NEW t \in Threads, ThreadStep(t)
        PROVE  ReadCurrent' /\ ServedCurrent'
    <2>1. UNCHANGED <<tree, md5, backend>> /\ hist'.quiet = hist.quiet /\ hist'.stale = hist.stale
      BY <1>1, StepFrame, HistFrame
    <2>2. CASE hist.quiet
      BY <1>1, <2>1, <2>2, LoadCurrent, MaintainCurrent DEF ThreadStep
    <2>3. CASE ~hist.quiet
      BY <2>1, <2>3 DEF ReadCurrent, ServedCurrent
    <2> QED BY <2>2, <2>3
  <1>2. CASE OpenRepository
    <2>1. /\ UNCHANGED <<tree, md5, backend, rows, parsed, kept, th, served>>
          /\ hist'.quiet = hist.quiet /\ hist'.stale = hist.stale
      BY <1>2 DEF OpenRepository, CacheTypeOK, TreeOK, HistType
    <2> QED BY <2>1 DEF ReadCurrent, ServedCurrent, Key, StoredMtime
  <1>3. ASSUME parsed' = [v \in PkgVersions |-> 0], kept' = [v \in PkgVersions |-> 0],
               th' = [t \in Threads |-> NoCall], served' = NoneServed,
               UNCHANGED backend, rows' = rows \/ rows' = <<>>,
               hist'.quiet => hist.quiet, hist.stale \subseteq hist'.stale,
               hist'.quiet => \A v \in PkgVersions \ hist'.stale : md5'[v] \in {0, tree'[v]}
        PROVE  ReadCurrent' /\ ServedCurrent'
    <2>1. NoCall.pc = "idle" /\ NoneServed.content = NoneServed.now
      BY DEF NoCall, NoneServed
    <2>2. \A t \in Threads : th'[t].pc = "idle"
      BY <1>3, <2>1
    <2>3. \A t \in Threads : CallCurrent(t)'
      BY <2>2, RestCurrent
    <2>4. hist'.quiet => ParsedCurrent' /\ RowsCurrent'
      BY <1>3, ReadParts DEF ParsedCurrent, RowsCurrent, StoredMtime
    <2>5. ReadCurrent'
      BY <2>3, <2>4 DEF ReadCurrent, ParsedCurrent, RowsCurrent, CallCurrent
    <2> QED BY <1>3, <2>1, <2>5 DEF ServedCurrent
  <1>4. CASE ProcessEnds
    BY <1>3, <1>4 DEF ProcessEnds, ReadCurrent
  <1>5. ASSUME NEW v \in PkgVersions, NEW gone \in BOOLEAN, NEW bump \in BOOLEAN, EditTree(v, gone, bump)
        PROVE  ReadCurrent' /\ ServedCurrent'
    <2>1. /\ UNCHANGED <<backend, running, rows, parsed, kept, th, served>>
          /\ hist' = [hist EXCEPT !.edits = hist.edits + 1, !.quiet = hist.quiet /\ ~running,
                                  !.bumped = hist.bumped /\ bump,
                                  !.stale = hist.stale \cup {w \in PkgVersions : md5'[w] \notin {0, tree'[w]}}]
      BY <1>5 DEF EditTree
    <2>2. hist \in HistType
      BY DEF CacheTypeOK, TreeOK
    <2>3. /\ hist'.quiet = (hist.quiet /\ ~running)
          /\ hist'.stale = hist.stale \cup {w \in PkgVersions : md5'[w] \notin {0, tree'[w]}}
      BY <2>1, <2>2 DEF HistType
    <2>4. CASE running
      BY <2>3, <2>4 DEF ReadCurrent, ServedCurrent
    <2>5. CASE ~running
      <3>1. /\ parsed' = [w \in PkgVersions |-> 0] /\ kept' = [w \in PkgVersions |-> 0]
            /\ th' = [t \in Threads |-> NoCall] /\ served' = NoneServed
        BY <2>1, <2>5 DEF CacheTypeOK
      <3> QED BY <1>3, <2>1, <2>3, <3>1
    <2> QED BY <2>4, <2>5
  <1>6. CASE UNCHANGED cacheVars
    BY <1>6 DEF cacheVars, ReadCurrent, ServedCurrent, Key, StoredMtime
  <1> QED BY <1>1, <1>2, <1>4, <1>5, <1>6 DEF CacheNext

-----------------------------------------------------------------------------
(* The index is whole when it counts as valid *)

\* What IndexWhole says of one call.
CallWhole(t) ==
    /\ th[t].pc = "add" => th[t].found = Present
    /\ th[t].sure /\ th[t].op = "LoadPackage" /\ th[t].todo # {} =>
         Present # {} /\ th[t].todo = {Max(Present)}

\* The smallest member of a singleton is its member.
LEMMA SingletonMin ==
    ASSUME NEW m \in PkgVersions
    PROVE  Min({m}) = m
  BY VersionsMinMax

\* A step of one call keeps IndexWhole if its call does, and if the index is left to
\* it empty or whole, or is not touched by one that had not emptied it.
LEMMA WholeKept ==
    ASSUME CacheTypeOK, IndexWhole, hist.quiet, hist.bumped, UNCHANGED <<tree, root>>, NEW t \in Threads,
           \A u \in Threads : u # t => th'[u] = th[u], CallWhole(t)',
           \/ index' \in {{}, Present}
           \/ index' = index /\ repo_mtime' = repo_mtime /\ (th'[t].pc \in Rebuilding => th[t].pc \in Rebuilding),
           repo_mtime' \in {repo_mtime, root},
           hist'.ensured /\ running' => repo_mtime' = root
    PROVE  IndexWhole'
  <1>1. Present' = Present
    BY DEF Present
  <1>2. repo_mtime' <= root'
    BY DEF IndexWhole, CacheTypeOK, TreeOK
  <1>3. (repo_mtime' = root' \/ \E u \in Threads : th'[u].pc \in Rebuilding) => index' \in {{}, Present'}
    <2>1. CASE index' \in {{}, Present}
      BY <1>1, <2>1
    <2>2. CASE index' = index /\ repo_mtime' = repo_mtime /\ (th'[t].pc \in Rebuilding => th[t].pc \in Rebuilding)
      <3>1. (repo_mtime = root \/ \E u \in Threads : th[u].pc \in Rebuilding) => index \in {{}, Present}
        BY DEF IndexWhole
      <3>2. (\E u \in Threads : th'[u].pc \in Rebuilding) => \E u \in Threads : th[u].pc \in Rebuilding
        BY <2>2
      <3> QED BY <1>1, <2>2, <3>1, <3>2
    <2> QED BY <2>1, <2>2
  <1>4. ASSUME NEW u \in Threads PROVE CallWhole(u)'
    <2>1. CASE u = t
      BY <2>1
    <2>2. CASE u # t
      <3>1. th'[u] = th[u]
        BY <2>2
      <3>2. CallWhole(u)
        BY DEF IndexWhole, CallWhole
      <3> QED BY <1>1, <3>1, <3>2 DEF CallWhole
    <2> QED BY <2>1, <2>2
  <1>5. hist'.ensured /\ running' => repo_mtime' = root'
    OBVIOUS
  <1> QED BY <1>2, <1>3, <1>4, <1>5 DEF IndexWhole, CallWhole

\* A call that goes on with the same versions keeps what it has been promised.
LEMMA SameWhole ==
    ASSUME NEW t, CallWhole(t), UNCHANGED tree, th'[t].pc # "add",
           th'[t].op = th[t].op, th'[t].sure = th[t].sure, th'[t].todo = th[t].todo
    PROVE  CallWhole(t)'
  <1>1. Present' = Present
    BY DEF Present
  <1> QED BY <1>1 DEF CallWhole

\* A call that has no version to look at has been promised nothing.
LEMMA EmptyWhole ==
    ASSUME NEW t, th'[t].pc # "add", th'[t].todo = {}
    PROVE  CallWhole(t)'
  BY DEF CallWhole

\* A sure LoadPackage has the highest version of the tree before it.
LEMMA SureKey ==
    ASSUME CacheTypeOK, NEW t \in Threads, th[t].pc \in Working, CallWhole(t),
           th[t].sure, th[t].op = "LoadPackage"
    PROVE  Key(t) = Max0(Present) /\ th[t].todo = {Key(t)}
  <1>1. th[t].todo # {}
    BY DEF CacheTypeOK, CallsOK
  <1>2. Present # {} /\ th[t].todo = {Max(Present)}
    BY <1>1 DEF CallWhole
  <1>3. Max(Present) \in PkgVersions
    BY <1>2, VersionsMinMax DEF Present
  <1>4. Key(t) = Max(Present)
    BY <1>2, <1>3, SingletonMin DEF Key
  <1> QED BY <1>2, <1>4 DEF Max0

\* After its one version a sure LoadPackage has none left.
LEMMA AdvanceWhole ==
    ASSUME CacheTypeOK, NEW t \in Threads, th[t].pc \in Working, CallWhole(t), UNCHANGED tree,
           NEW found \in BOOLEAN, Advance(t, found)
    PROVE  /\ CallWhole(t)' /\ th'[t].pc \notin Rebuilding
           /\ \A u \in Threads : u # t => th'[u] = th[u]
  <1>1. th \in [Threads -> CallType]
    BY DEF CacheTypeOK, CallsOK
  <1>2. /\ \A u \in Threads : u # t => th'[u] = th[u]
        /\ \/ th'[t] = NoCall
           \/ th'[t].pc = "base" /\ SameCall(t)
           \/ /\ th'[t].pc = "get" /\ th'[t].op = th[t].op /\ th'[t].sure = th[t].sure
              /\ th'[t].todo = th[t].todo \ {Key(t)} /\ th'[t].todo # {}
    BY <1>1, AdvanceMoves
  <1>3. CASE th'[t] = NoCall
    <2>1. th'[t].pc = "idle" /\ th'[t].todo = {}
      BY <1>3 DEF NoCall
    <2> QED BY <1>2, <2>1, EmptyWhole DEF Rebuilding
  <1>4. CASE th'[t].pc = "base" /\ SameCall(t)
    BY <1>2, <1>4, SameWhole DEF SameCall, Rebuilding
  <1>5. CASE /\ th'[t].pc = "get" /\ th'[t].op = th[t].op /\ th'[t].sure = th[t].sure
             /\ th'[t].todo = th[t].todo \ {Key(t)} /\ th'[t].todo # {}
    <2>1. ~(th'[t].sure /\ th'[t].op = "LoadPackage")
      BY <1>5, SureKey
    <2> QED BY <1>2, <1>5, <2>1 DEF CallWhole, Rebuilding
  <1> QED BY <1>2, <1>3, <1>4, <1>5

\* What a sure LoadPackage serves is the highest version of the tree.
LEMMA ServeWhole ==
    ASSUME CacheTypeOK, NEW t \in Threads, th[t].pc \in Working, CallWhole(t),
           NEW c \in Contents \cup {0}, NEW whole \in BOOLEAN, Serve(t, Key(t), c, whole)
    PROVE  LatestAfterEnsure'
  <1>1. th \in [Threads -> CallType] /\ TreeOK /\ Key(t) \in PkgVersions
    BY KeyType DEF CacheTypeOK, CallsOK
  <1>2. /\ served'.version = Key(t) /\ served'.highest = Max0(Present)
        /\ served'.op = th[t].op /\ served'.sure = th[t].sure
    BY <1>1, ServeMoves
  <1> QED BY <1>2, SureKey DEF LatestAfterEnsure

\* A call begins with what the index has.
LEMMA CallBeginsWhole ==
    ASSUME CacheTypeOK, NEW t \in Threads, NEW op \in Operations, NEW todo \in SUBSET PkgVersions,
           Call(t, op, todo), UNCHANGED tree,
           hist.ensured /\ op = "LoadPackage" /\ todo # {} => Present # {} /\ todo = {Max(Present)}
    PROVE  /\ CallWhole(t)' /\ th'[t].pc \notin Rebuilding /\ hist'.ensured = hist.ensured
           /\ \A u \in Threads : u # t => th'[u] = th[u]
  <1>1. /\ th'[t].pc = (IF todo = {} THEN "base" ELSE "get")
        /\ th'[t].op = op /\ th'[t].sure = hist.ensured /\ th'[t].todo = todo
        /\ \A u \in Threads : u # t => th'[u] = th[u]
        /\ hist'.ensured = hist.ensured
    BY CallMoves
  <1>2. th'[t].pc \in {"base", "get"}
    BY <1>1
  <1>3. th'[t].pc \notin Rebuilding /\ th'[t].pc # "add"
    BY <1>2 DEF Rebuilding
  <1>4. Present' = Present
    BY DEF Present
  <1>5. CallWhole(t)'
    BY <1>1, <1>3, <1>4 DEF CallWhole
  <1> QED BY <1>1, <1>3, <1>5

\* Maintenance begins with no version to look at.
LEMMA MaintainBeginsWhole ==
    ASSUME CacheTypeOK, NEW t \in Threads,
           EnsureCache(t) \/ RebuildCache(t) \/ InvalidateCache(t) \/ InvalidatePackage(t)
    PROVE  /\ CallWhole(t)' /\ th'[t].pc \notin Rebuilding /\ hist'.ensured = hist.ensured
           /\ \A u \in Threads : u # t => th'[u] = th[u]
           /\ UNCHANGED <<index, repo_mtime, running, served>>
  <1>1. PICK op \in Operations, pc \in {"isvalid", "clear", "forget", "forgetpackage"} : Maintain(t, op, pc)
    BY DEF Operations, EnsureCache, RebuildCache, InvalidateCache, InvalidatePackage
  <1>2. pc \in CachePoints /\ pc \notin Working /\ pc \notin Rebuilding /\ pc # "add"
    BY DEF CachePoints, Working, Rebuilding
  <1>3. /\ th'[t].pc = pc /\ th'[t].todo = {} /\ hist'.ensured = hist.ensured
        /\ \A u \in Threads : u # t => th'[u] = th[u]
    BY <1>1, <1>2, MaintainMoves
  <1> QED BY <1>1, <1>2, <1>3, EmptyWhole DEF Maintain

\* The steps of LoadPackage and GetAllVersions.
LEMMA LoadWhole ==
    ASSUME CacheTypeOK, IndexWhole, LatestAfterEnsure, hist.quiet, hist.bumped,
           running, UNCHANGED <<tree, root, running>>, NEW t \in Threads,
           \/ LoadPackage(t) \/ GetAllVersions(t) \/ GetRow(t) \/ TouchRow(t) \/ CheckRow(t)
           \/ DropRow(t) \/ ParseEbuild(t) \/ StatForPut(t) \/ CachePackage(t) \/ LoadUncached(t)
    PROVE  IndexWhole' /\ LatestAfterEnsure'
  <1>0. th \in [Threads -> CallType] /\ TreeOK /\ CachesOK /\ CallsOK
    BY DEF CacheTypeOK, CallsOK
  <1>a. CallWhole(t) /\ (hist.ensured => repo_mtime = root)
    BY DEF IndexWhole, CallWhole
  <1>b. served' = served => LatestAfterEnsure'
    BY DEF LatestAfterEnsure
  <1>c. UNCHANGED <<index, repo_mtime>>
    BY DEF LoadPackage, GetAllVersions, Call, GetRow, TouchRow, CheckRow, DropRow, ParseEbuild, StatForPut,
       CachePackage, LoadUncached
  <1>d. ASSUME CallWhole(t)', th'[t].pc \notin Rebuilding, hist'.ensured = hist.ensured,
               \A u \in Threads : u # t => th'[u] = th[u]
        PROVE  IndexWhole'
    BY <1>a, <1>c, <1>d, WholeKept
  <1>e. ASSUME NEW pc \in {"stat", "parse", "delete", "base", "reparse"}, Goto(t, pc), hist' = hist
        PROVE  IndexWhole'
    <2>1. pc \in CachePoints /\ pc \notin Rebuilding /\ pc # "add"
      BY DEF CachePoints, Working, Rebuilding
    <2>2. th'[t].pc = pc /\ SameCall(t) /\ \A u \in Threads : u # t => th'[u] = th[u]
      BY <1>0, <1>e, <2>1, GotoMoves
    <2>3. CallWhole(t)'
      BY <1>a, <2>1, <2>2, SameWhole DEF SameCall
    <2> QED BY <1>d, <1>e, <2>1, <2>2, <2>3
  <1>f. ASSUME NEW found \in BOOLEAN, Advance(t, found), th[t].pc \in Working, hist' = hist
        PROVE  IndexWhole'
    BY <1>a, <1>d, <1>f, AdvanceWhole
  <1>2. CASE LoadPackage(t) \/ GetAllVersions(t)
    <2>1. "LoadPackage" \in Operations /\ "GetAllVersions" \in Operations
      BY DEF Operations
    <2>2. index \in SUBSET PkgVersions /\ (index # {} => {Max(index)} \in SUBSET PkgVersions)
      BY <1>0, VersionsMinMax DEF CachesOK
    <2>3. hist.ensured => index \in {{}, Present}
      BY <1>a DEF IndexWhole
    <2>4. PICK op \in Operations, todo \in SUBSET PkgVersions :
            /\ Call(t, op, todo)
            /\ hist.ensured /\ op = "LoadPackage" /\ todo # {} => Present # {} /\ todo = {Max(Present)}
      <3>1. CASE LoadPackage(t)
        <4> DEFINE todo == IF index = {} THEN {} ELSE {Max(index)}
        <4>1. Call(t, "LoadPackage", todo)
          BY <3>1 DEF LoadPackage, LookupPackage
        <4>2. todo \in SUBSET PkgVersions
          BY <2>2
        <4>3. hist.ensured /\ todo # {} => Present # {} /\ todo = {Max(Present)}
          BY <2>3
        <4> HIDE DEF todo
        <4> QED BY <2>1, <4>1, <4>2, <4>3
      <3>2. CASE GetAllVersions(t)
        BY <2>1, <2>2, <3>2 DEF GetAllVersions, LookupPackage
      <3> QED BY <1>2, <3>1, <3>2
    <2>5. /\ CallWhole(t)' /\ th'[t].pc \notin Rebuilding /\ hist'.ensured = hist.ensured
          /\ \A u \in Threads : u # t => th'[u] = th[u]
      BY <2>4, CallBeginsWhole
    <2>6. served' = served
      BY <2>4 DEF Call
    <2> QED BY <1>b, <1>d, <2>5, <2>6
  <1>3. CASE GetRow(t)
    <2>1. UNCHANGED <<served, hist>>
      BY <1>3 DEF GetRow
    <2>2. /\ \A u \in Threads : u # t => th'[u] = th[u]
          /\ th'[t].pc \in {"parse", "touch", "stat"}
          /\ th'[t].todo = th[t].todo /\ th'[t].op = th[t].op /\ th'[t].sure = th[t].sure
      BY <1>3, GetRowMoves DEF SameCall
    <2>3. th'[t].pc \notin Rebuilding /\ th'[t].pc # "add"
      BY <2>2 DEF Rebuilding
    <2>4. CallWhole(t)'
      BY <1>a, <2>2, <2>3, SameWhole
    <2> QED BY <1>b, <1>d, <2>1, <2>2, <2>3, <2>4
  <1>4. CASE TouchRow(t)
    BY <1>4, <1>b, <1>e DEF TouchRow
  <1>5. CASE CheckRow(t)
    <2>1. UNCHANGED hist /\ th[t].pc = "stat"
      BY <1>5 DEF CheckRow
    <2>2. th[t].pc \in Working
      BY <2>1 DEF Working
    <2>3. CASE IsValid(t)
      <3>1. Serve(t, Key(t), th[t].entry, FALSE) /\ Advance(t, TRUE)
        BY <1>5, <2>3 DEF CheckRow, entryToPackage
      <3>2. th[t].entry \in Contents \cup {0}
        BY <1>0 DEF CallType
      <3> QED BY <1>a, <1>f, <2>1, <2>2, <3>1, <3>2, ServeWhole
    <2>4. CASE ~IsValid(t)
      BY <1>5, <1>b, <1>e, <2>1, <2>4 DEF CheckRow
    <2> QED BY <2>3, <2>4
  <1>6. CASE DropRow(t)
    BY <1>6, <1>b, <1>e DEF DropRow
  <1>7. CASE ParseEbuild(t)
    <2> DEFINE known == IF parsed[Key(t)] # 0 THEN parsed[Key(t)] ELSE repoParse(Key(t))
    <2>1. UNCHANGED hist /\ th[t].pc \in {"parse", "reparse"}
      BY <1>7 DEF ParseEbuild
    <2>2. th[t].pc \in Working
      BY <2>1 DEF Working
    <2>3. known \in Contents \cup {0}
      BY <1>0, <2>2, KeyType, ParseType DEF CachesOK
    <2>4. \/ UNCHANGED served /\ (Goto(t, "base") \/ Advance(t, FALSE) \/ Goto(t, "reparse"))
          \/ Serve(t, Key(t), known, TRUE) /\ Advance(t, TRUE)
          \/ th' = [th EXCEPT ![t].content = known, ![t].pc = "putstat"] /\ UNCHANGED served
      BY <1>7 DEF ParseEbuild
    <2> HIDE DEF known
    <2>5. CASE UNCHANGED served /\ (Goto(t, "base") \/ Advance(t, FALSE) \/ Goto(t, "reparse"))
      BY <1>b, <1>e, <1>f, <2>1, <2>2, <2>5
    <2>6. CASE Serve(t, Key(t), known, TRUE) /\ Advance(t, TRUE)
      BY <1>a, <1>f, <2>1, <2>2, <2>3, <2>6, ServeWhole
    <2>7. CASE th' = [th EXCEPT ![t].content = known, ![t].pc = "putstat"] /\ UNCHANGED served
      <3> DEFINE c == [th[t] EXCEPT !.content = known, !.pc = "putstat"]
      <3>1. th' = [th EXCEPT ![t] = c]
        BY <2>7
      <3>2. c.pc = "putstat" /\ c.todo = th[t].todo /\ c.op = th[t].op /\ c.sure = th[t].sure
        BY <1>0 DEF CallType
      <3> HIDE DEF c
      <3>3. th'[t] = c /\ \A u \in Threads : u # t => th'[u] = th[u]
        BY <1>0, <3>1
      <3>4. th'[t].pc \notin Rebuilding /\ th'[t].pc # "add"
        BY <3>2, <3>3 DEF Rebuilding
      <3>5. CallWhole(t)'
        BY <1>a, <3>2, <3>3, <3>4, SameWhole
      <3> QED BY <1>b, <1>d, <2>1, <2>7, <3>3, <3>4, <3>5
    <2> QED BY <2>4, <2>5, <2>6, <2>7
  <1>8. CASE StatForPut(t)
    <2>1. UNCHANGED hist /\ th[t].pc = "putstat"
      BY <1>8 DEF StatForPut
    <2>2. th[t].pc \in Working
      BY <2>1 DEF Working
    <2>3. th[t].content \in Contents \cup {0}
      BY <1>0 DEF CallType
    <2>4. CASE Serve(t, Key(t), th[t].content, TRUE) /\ Advance(t, TRUE)
      BY <1>a, <1>f, <2>1, <2>2, <2>3, <2>4, ServeWhole
    <2> DEFINE m == StoredMtime(Mtime[tree[Key(t)]])
               c == [th[t] EXCEPT !.mtime = m, !.pc = "put"]
    <2>5. CASE th' = [th EXCEPT ![t] = c] /\ UNCHANGED served
      <3>2. c.pc = "put" /\ c.todo = th[t].todo /\ c.op = th[t].op /\ c.sure = th[t].sure
        BY <1>0 DEF CallType
      <3> HIDE DEF c
      <3>3. th'[t] = c /\ \A u \in Threads : u # t => th'[u] = th[u]
        BY <1>0, <2>5
      <3>4. th'[t].pc \notin Rebuilding /\ th'[t].pc # "add"
        BY <3>2, <3>3 DEF Rebuilding
      <3>5. CallWhole(t)'
        BY <1>a, <3>2, <3>3, <3>4, SameWhole
      <3> QED BY <1>b, <1>d, <2>1, <2>5, <3>3, <3>4, <3>5
    <2> QED BY <1>8, <2>4, <2>5 DEF StatForPut
  <1>9. CASE CachePackage(t)
    <2>1. /\ UNCHANGED hist /\ th[t].pc = "put"
          /\ Serve(t, Key(t), th[t].content, TRUE) /\ Advance(t, TRUE)
      BY <1>9 DEF CachePackage
    <2>2. th[t].pc \in Working
      BY <2>1 DEF Working
    <2>3. th[t].content \in Contents \cup {0}
      BY <1>0 DEF CallType
    <2> QED BY <1>a, <1>f, <2>1, <2>2, <2>3, ServeWhole
  <1>10. CASE LoadUncached(t)
    <2>1. UNCHANGED hist /\ Idle(t)
      BY <1>10 DEF LoadUncached
    <2>2. LatestAfterEnsure'
      <3>1. CASE Present = {}
        BY <1>10, <1>b, <3>1 DEF LoadUncached
      <3>2. CASE Present # {}
        <4>1. PICK v \in Loaded(t) : Serve(t, v, repoParse(v), TRUE)
          BY <1>10, <3>2 DEF LoadUncached
        <4>2. v \in PkgVersions /\ (th[t].op = "LoadPackage" => v = Max(Present))
          BY <4>1, LoadedPresent DEF Loaded
        <4>3. served'.version = v /\ served'.highest = Max0(Present) /\ served'.op = th[t].op
          BY <1>0, <4>1, <4>2, ParseType, ServeMoves
        <4> QED BY <3>2, <4>2, <4>3 DEF LatestAfterEnsure, Max0
      <3> QED BY <3>1, <3>2
    <2>3. /\ th'[t].pc = "idle" /\ th'[t].todo = {}
          /\ \A u \in Threads : u # t => th'[u] = th[u]
      BY <1>0, <2>1, IdleMoves DEF NoCall
    <2>4. CallWhole(t)' /\ th'[t].pc \notin Rebuilding
      BY <2>3, EmptyWhole DEF Rebuilding
    <2> QED BY <1>d, <2>1, <2>2, <2>3, <2>4
  <1> QED BY <1>2, <1>3, <1>4, <1>5, <1>6, <1>7, <1>8, <1>9, <1>10

\* The steps of EnsureCache, RebuildCache, InvalidateCache and InvalidatePackage.
LEMMA MaintainWhole ==
    ASSUME CacheTypeOK, IndexWhole, LatestAfterEnsure, hist.quiet, hist.bumped,
           running, UNCHANGED <<tree, root, running>>, NEW t \in Threads,
           \/ EnsureCache(t) \/ RebuildCache(t) \/ InvalidateCache(t) \/ InvalidatePackage(t)
           \/ IndexIsValid(t) \/ ClearIndex(t) \/ ScanRepository(t) \/ AddBatch(t) \/ SetRepoMtime(t)
           \/ ForgetRows(t) \/ ForgetIndex(t) \/ ForgetPackage(t)
    PROVE  IndexWhole' /\ LatestAfterEnsure'
  <1>0. th \in [Threads -> CallType] /\ hist \in HistType
    BY DEF CacheTypeOK, CallsOK, TreeOK
  <1>a. /\ CallWhole(t) /\ (hist.ensured => repo_mtime = root)
        /\ th[t].pc \in Rebuilding => index \in {{}, Present}
    BY DEF IndexWhole, CallWhole
  <1>b. LatestAfterEnsure'
    <2>1. served' = served
      BY DEF EnsureCache, RebuildCache, InvalidateCache, InvalidatePackage, Maintain, IndexIsValid, ClearIndex,
         ScanRepository, AddBatch, SetRepoMtime, ForgetRows, ForgetIndex, ForgetPackage
    <2> QED BY <2>1 DEF LatestAfterEnsure
  <1>c. ASSUME Idle(t)
        PROVE  /\ CallWhole(t)' /\ th'[t].pc \notin Rebuilding
               /\ \A u \in Threads : u # t => th'[u] = th[u]
    <2>1. /\ th'[t].pc = "idle" /\ th'[t].todo = {}
          /\ \A u \in Threads : u # t => th'[u] = th[u]
      BY <1>0, <1>c, IdleMoves DEF NoCall
    <2> QED BY <2>1, EmptyWhole DEF Rebuilding
  <1>d. ASSUME NEW pc \in {"clear", "scan", "setmtime", "forgetindex"}, Goto(t, pc)
        PROVE  /\ CallWhole(t)' /\ th'[t].pc = pc
               /\ \A u \in Threads : u # t => th'[u] = th[u]
    <2>1. pc \in CachePoints /\ pc # "add"
      BY DEF CachePoints, Rebuilding
    <2>2. th'[t].pc = pc /\ SameCall(t) /\ \A u \in Threads : u # t => th'[u] = th[u]
      BY <1>0, <1>d, <2>1, GotoMoves
    <2> QED BY <1>a, <2>1, <2>2, SameWhole DEF SameCall
  <1>e. "clear" \notin Rebuilding /\ "forgetindex" \notin Rebuilding
    BY DEF Rebuilding
  <1>1. CASE EnsureCache(t) \/ RebuildCache(t) \/ InvalidateCache(t) \/ InvalidatePackage(t)
    <2>1. /\ CallWhole(t)' /\ th'[t].pc \notin Rebuilding /\ hist'.ensured = hist.ensured
          /\ \A u \in Threads : u # t => th'[u] = th[u]
          /\ UNCHANGED <<index, repo_mtime, running, served>>
      BY <1>1, MaintainBeginsWhole
    <2> QED BY <1>a, <1>b, <2>1, WholeKept
  <1>2. CASE IndexIsValid(t)
    <2>1. UNCHANGED <<index, repo_mtime>>
      BY <1>2 DEF IndexIsValid
    <2>2. CASE repo_mtime = root
      <3>1. Idle(t)
        BY <1>2, <2>2 DEF IndexIsValid
      <3> QED BY <1>b, <1>c, <2>1, <2>2, <3>1, WholeKept
    <2>3. CASE repo_mtime # root
      <3>1. Goto(t, "clear") /\ hist' = hist
        BY <1>2, <2>3 DEF IndexIsValid
      <3>2. /\ CallWhole(t)' /\ th'[t].pc \notin Rebuilding
            /\ \A u \in Threads : u # t => th'[u] = th[u]
        BY <1>d, <1>e, <3>1
      <3> QED BY <1>a, <1>b, <2>1, <3>1, <3>2, WholeKept
    <2> QED BY <2>2, <2>3
  <1>3. CASE ClearIndex(t) \/ ForgetIndex(t)
    <2>1. index' = {} /\ UNCHANGED <<repo_mtime, hist>> /\ (Goto(t, "scan") \/ Idle(t))
      BY <1>3 DEF ClearIndex, ForgetIndex
    <2>2. CallWhole(t)' /\ \A u \in Threads : u # t => th'[u] = th[u]
      BY <1>c, <1>d, <2>1
    <2> QED BY <1>a, <1>b, <2>1, <2>2, WholeKept
  <1>4. CASE ScanRepository(t)
    <2> DEFINE c == [th[t] EXCEPT !.found = Present, !.pc = "add"]
    <2>1. /\ UNCHANGED <<index, repo_mtime, hist>> /\ th[t].pc = "scan"
          /\ th' = [th EXCEPT ![t] = c]
      BY <1>4 DEF ScanRepository
    <2>2. /\ c.pc = "add" /\ c.found = Present
          /\ c.todo = th[t].todo /\ c.op = th[t].op /\ c.sure = th[t].sure
      BY <1>0 DEF CallType
    <2> HIDE DEF c
    <2>3. th'[t] = c /\ \A u \in Threads : u # t => th'[u] = th[u]
      BY <1>0, <2>1
    <2>4. Present' = Present
      BY DEF Present
    <2>5. CallWhole(t)'
      BY <1>a, <2>2, <2>3, <2>4 DEF CallWhole
    <2>6. th[t].pc \in Rebuilding
      BY <2>1 DEF Rebuilding
    <2> QED BY <1>a, <1>b, <2>1, <2>3, <2>5, <2>6, WholeKept
  <1>5. CASE AddBatch(t)
    <2>1. /\ th[t].pc = "add" /\ index' = index \cup th[t].found /\ Goto(t, "setmtime")
          /\ UNCHANGED <<repo_mtime, hist>>
      BY <1>5 DEF AddBatch
    <2>2. th[t].pc \in Rebuilding
      BY <2>1 DEF Rebuilding
    <2>3. index' = Present
      BY <1>a, <2>1, <2>2 DEF CallWhole
    <2>4. CallWhole(t)' /\ \A u \in Threads : u # t => th'[u] = th[u]
      BY <1>d, <2>1
    <2> QED BY <1>a, <1>b, <2>1, <2>3, <2>4, WholeKept
  <1>6. CASE SetRepoMtime(t)
    <2>1. th[t].pc = "setmtime" /\ repo_mtime' = root /\ index' = index /\ Idle(t)
      BY <1>6 DEF SetRepoMtime
    <2>2. th[t].pc \in Rebuilding
      BY <2>1 DEF Rebuilding
    <2>3. CallWhole(t)' /\ \A u \in Threads : u # t => th'[u] = th[u]
      BY <1>c, <2>1
    <2> QED BY <1>a, <1>b, <2>1, <2>2, <2>3, WholeKept
  <1>7. CASE ForgetRows(t) \/ ForgetPackage(t)
    <2>1. UNCHANGED <<index, repo_mtime, hist>> /\ (Goto(t, "forgetindex") \/ Idle(t))
      BY <1>7 DEF ForgetRows, ForgetPackage
    <2>2. /\ CallWhole(t)' /\ th'[t].pc \notin Rebuilding
          /\ \A u \in Threads : u # t => th'[u] = th[u]
      BY <1>c, <1>d, <1>e, <2>1
    <2> QED BY <1>a, <1>b, <2>1, <2>2, WholeKept
  <1> QED BY <1>1, <1>2, <1>3, <1>4, <1>5, <1>6, <1>7

\* The stored mtime is taken from the root, and never ahead of it.
LEMMA MtimeBehind ==
    ASSUME CacheTypeOK, repo_mtime <= root, NEW t \in Threads, ThreadStep(t)
    PROVE  repo_mtime' <= root'
  <1>1. root' = root /\ root \in Nat
    BY StepFrame DEF CacheTypeOK, TreeOK
  <1>2. repo_mtime' = repo_mtime \/ repo_mtime' = root
    BY DEF ThreadStep, LoadPackage, GetAllVersions, Call, EnsureCache, RebuildCache, InvalidateCache,
       InvalidatePackage, Maintain, GetRow, TouchRow, CheckRow, DropRow, ParseEbuild, StatForPut, CachePackage,
       LoadUncached, IndexIsValid, ClearIndex, ScanRepository, AddBatch, SetRepoMtime, ForgetRows, ForgetIndex,
       ForgetPackage
  <1> QED BY <1>1, <1>2

\* Every step keeps the index whole: a process that is killed leaves the old mtime or
\* a whole index, and a change of the tree that shows in the root makes it invalid.
LEMMA CacheNextWhole ==
    ASSUME CacheTypeOK, IndexWhole, LatestAfterEnsure, [CacheNext]_cacheVars
    PROVE  IndexWhole' /\ LatestAfterEnsure'
  <1>0. repo_mtime <= root /\ hist \in HistType
    BY DEF IndexWhole, CacheTypeOK, TreeOK
  <1>1. ASSUME NEW t \in Threads, ThreadStep(t)
        PROVE  IndexWhole' /\ LatestAfterEnsure'
    <2>1. running /\ UNCHANGED <<tree, root, running>>
      BY <1>1, StepFrame
    <2>2. hist'.quiet = hist.quiet /\ hist'.bumped = hist.bumped
      BY <1>1, HistFrame
    <2>3. CASE hist.quiet /\ hist.bumped
      BY <1>1, <2>1, <2>3, LoadWhole, MaintainWhole DEF ThreadStep
    <2>4. CASE ~(hist.quiet /\ hist.bumped)
      <3>1. repo_mtime' <= root'
        BY <1>0, <1>1, MtimeBehind
      <3> QED BY <2>2, <2>4, <3>1 DEF IndexWhole, LatestAfterEnsure
    <2> QED BY <2>3, <2>4
  <1>2. CASE OpenRepository
    <2>1. UNCHANGED <<tree, root, index, repo_mtime, th, served>>
      BY <1>2 DEF OpenRepository
    <2>2. hist'.quiet = hist.quiet /\ hist'.bumped = hist.bumped /\ hist'.ensured = FALSE
      BY <1>0, <1>2 DEF OpenRepository, HistType
    <2>3. Present' = Present
      BY <2>1 DEF Present
    <2> QED BY <2>1, <2>2, <2>3 DEF IndexWhole, LatestAfterEnsure
  <1>3. ASSUME th' = [t \in Threads |-> NoCall], served' = NoneServed, ~running', repo_mtime' <= root',
               hist'.quiet /\ hist'.bumped /\ repo_mtime' = root' => index' \in {{}, Present'}
        PROVE  IndexWhole' /\ LatestAfterEnsure'
    <2>1. NoCall.pc = "idle" /\ NoCall.todo = {} /\ NoneServed.sure = FALSE
      BY DEF NoCall, NoneServed
    <2>2. \A t \in Threads : th'[t].pc = "idle" /\ th'[t].todo = {}
      BY <1>3, <2>1
    <2>3. "idle" \notin Rebuilding
      BY DEF Rebuilding
    <2>4. IndexWhole'
      BY <1>3, <2>2, <2>3 DEF IndexWhole
    <2> QED BY <1>3, <2>1, <2>4 DEF LatestAfterEnsure
  <1>4. CASE ProcessEnds
    <2>1. /\ UNCHANGED <<tree, root, index, repo_mtime, hist>> /\ running' = FALSE
          /\ th' = [t \in Threads |-> NoCall] /\ served' = NoneServed
      BY <1>4 DEF ProcessEnds
    <2>2. Present' = Present
      BY <2>1 DEF Present
    <2>3. hist'.quiet /\ hist'.bumped /\ repo_mtime' = root' => index' \in {{}, Present'}
      BY <2>1, <2>2 DEF IndexWhole
    <2> QED BY <1>0, <1>3, <2>1, <2>3
  <1>5. ASSUME NEW v \in PkgVersions, NEW gone \in BOOLEAN, NEW bump \in BOOLEAN, EditTree(v, gone, bump)
        PROVE  IndexWhole' /\ LatestAfterEnsure'
    <2>1. /\ UNCHANGED <<running, index, repo_mtime, th, served>>
          /\ root' = (IF bump THEN root + 1 ELSE root)
          /\ \E S : hist' = [hist EXCEPT !.edits = hist.edits + 1, !.quiet = hist.quiet /\ ~running,
                                          !.bumped = hist.bumped /\ bump, !.stale = S]
      BY <1>5 DEF EditTree
    <2>2. hist'.quiet = (hist.quiet /\ ~running) /\ hist'.bumped = (hist.bumped /\ bump)
      BY <1>0, <2>1 DEF HistType
    <2>3. root \in Nat /\ repo_mtime \in Int
      BY DEF CacheTypeOK, TreeOK, CachesOK
    <2>4. repo_mtime' <= root' /\ (bump => repo_mtime' # root')
      BY <1>0, <2>1, <2>3
    <2>5. CASE ~running /\ bump
      <3>1. th' = [t \in Threads |-> NoCall] /\ served' = NoneServed
        BY <2>1, <2>5 DEF CacheTypeOK
      <3> QED BY <1>3, <2>1, <2>4, <2>5, <3>1
    <2>6. CASE ~(~running /\ bump)
      <3>1. ~(hist'.quiet /\ hist'.bumped)
        BY <2>2, <2>6
      <3> QED BY <2>4, <3>1 DEF IndexWhole, LatestAfterEnsure
    <2> QED BY <2>5, <2>6
  <1>6. CASE UNCHANGED cacheVars
    BY <1>6 DEF cacheVars, IndexWhole, LatestAfterEnsure, Present
  <1> QED BY <1>1, <1>2, <1>4, <1>5, <1>6 DEF CacheNext

-----------------------------------------------------------------------------
(* Theorems *)

\* Nothing is kept at first.
LEMMA CacheStarts ==
    ASSUME CacheInit
    PROVE  CacheInv
  <1>1. PICK S \in SUBSET PkgVersions : tree = [v \in PkgVersions |-> IF v \in S THEN v ELSE 0]
    BY DEF CacheInit
  <1>2. /\ md5 \in [PkgVersions -> Contents \cup {0}] /\ \A v \in PkgVersions : md5[v] \in {0, tree[v]}
        /\ root = 0 /\ backend \in Backends /\ running = FALSE
        /\ rows = <<>> /\ order = <<>> /\ index = {} /\ repo_mtime = -1
        /\ parsed = [v \in PkgVersions |-> 0] /\ kept = [v \in PkgVersions |-> 0]
        /\ th = [t \in Threads |-> NoCall] /\ served = NoneServed
        /\ hist = [calls |-> 0, edits |-> 0, processes |-> 0, quiet |-> TRUE, bumped |-> TRUE, ensured |-> FALSE,
                   stale |-> {}]
    BY DEF CacheInit
  <1>3. DOMAIN rows = {} /\ order \in Seq(PkgVersions)
    BY <1>2, EmptySeq
  <1>4. TreeOK
    <2>1. \A v \in PkgVersions : v \in Contents
      BY SizesAssumption DEF PkgVersions, Contents
    <2>2. tree \in [PkgVersions -> Contents \cup {0}]
      BY <1>1, <2>1
    <2>3. hist \in HistType
      BY <1>2 DEF HistType
    <2> QED BY <1>2, <2>2, <2>3 DEF TreeOK
  <1>5. CachesOK
    BY <1>2, <1>3 DEF CachesOK
  <1>6. \A t \in Threads : th[t] = NoCall
    BY <1>2
  <1>7. NoCall.pc = "idle" /\ NoCall.todo = {} /\ NoCall.sure = FALSE /\ NoneServed.sure = FALSE
        /\ NoneServed.content = NoneServed.now
    BY DEF NoCall, NoneServed
  <1>8. CallsOK
    <2>1. "none" \in Operations /\ "idle" \notin Working
      BY DEF Operations, Working
    <2>2. served \in ServedType
      BY <1>2, <2>1 DEF NoneServed, ServedType
    <2>3. th \in [Threads -> CallType]
      BY <1>2, NoCallType
    <2> QED BY <1>6, <1>7, <2>1, <2>2, <2>3 DEF CallsOK
  <1>9. CacheTypeOK
    BY <1>2, <1>4, <1>5, <1>8 DEF CacheTypeOK
  <1>10. ReadCurrent
    BY <1>2, <1>3, <1>6, <1>7 DEF ReadCurrent
  <1>11. ServedCurrent
    BY <1>2, <1>7 DEF ServedCurrent
  <1>12. IndexWhole
    <2>1. repo_mtime <= root /\ index \in {{}, Present} /\ ~running
      BY <1>2
    <2>2. \A t \in Threads : th[t].pc # "add" /\ th[t].todo = {}
      BY <1>6, <1>7
    <2> QED BY <2>1, <2>2 DEF IndexWhole
  <1>13. LatestAfterEnsure
    BY <1>2, <1>7 DEF LatestAfterEnsure
  <1>14. EvictionFindsVictim
    <2>1. Cardinality(DOMAIN rows) = 0
      BY <1>3, FS_EmptySet
    <2> QED BY <1>3, <2>1, SizesAssumption DEF EvictionFindsVictim
  <1> QED BY <1>9, <1>10, <1>11, <1>12, <1>13, <1>14 DEF CacheInv, StructuresAgree

\* Every step keeps the invariant of the caches.
LEMMA CacheStep == CacheInv /\ [CacheNext]_cacheVars => CacheInv'
  BY CacheNextTypes, CacheNextCurrent, CacheNextWhole DEF CacheInv, StructuresAgree

\* CacheInv is an invariant: types, what was read of the tree, the index and the order.
THEOREM CacheInvariant == CacheSpec => []CacheInv
  <1>1. CacheInit => CacheInv
    BY CacheStarts
  <1> QED BY <1>1, CacheStep, PTL DEF CacheSpec

\* The caches and the calls on them (internal/cache, internal/repo/cached_portage.go)
\* always have their types, and nothing in memory outlives its process.
THEOREM CacheTypesCorrect == CacheSpec => []CacheTypeOK
  <1>1. CacheInv => CacheTypeOK
    BY DEF CacheInv
  <1> QED BY <1>1, CacheInvariant, PTL

\* What LoadPackage and GetAllVersions return (internal/repo/cached_portage.go) is the
\* ebuild of the tree, as long as the tree changes only between processes and the
\* version's entry in md5-cache, if there is one, has always changed with the ebuild,
\* whichever goroutines fill, check and drop the rows in the meantime.
THEOREM ServedIsCurrent == CacheSpec => []ServedCurrent
  <1>1. CacheInv => ServedCurrent
    BY DEF CacheInv
  <1> QED BY <1>1, CacheInvariant, PTL

\* After EnsureCache the highest version is found, also when a process was killed in
\* the middle of a rebuild, and Put in memory (internal/cache/memory.go) always finds
\* a row to evict although Get moves keys in the order after it has let the lock go.
THEOREM StructuresAlwaysAgree == CacheSpec => []StructuresAgree
  <1>1. CacheInv => StructuresAgree
    BY DEF CacheInv
  <1> QED BY <1>1, CacheInvariant, PTL

(***************************************************************************)
(* Fetching for any distfiles, sizes, mirrors, answers, retries, crashes and*)
(* cancellations, by one worker at a time: nil means verified files, and   *)
(* verified files stay.                                                    *)
(***************************************************************************)

\* `grpm fetch`, and an emerge with one job: one Fetch call at a time.
OneWorker == \A v, w \in Workers : v = w

-----------------------------------------------------------------------------
(* The invariant *)

\* What the variables are.
CallFields == {"pc", "k", "uris", "attempt", "have", "status", "body", "fd", "done", "res"}
IsCall(c) == c = [x \in CallFields |-> c[x]]
FetchShape ==
    /\ inode = [i \in Inodes |-> inode[i]]
    /\ dest \in [Names -> Inodes \cup {None}] /\ part \in [Names -> Inodes \cup {None}]
    /\ call = [w \in Workers |-> call[w]] /\ \A w \in Workers : IsCall(call[w])

\* A partial file is a file of its own: neither a finished one nor the
\* partial file of another name.
PartialApart ==
    \A f, g \in Names :
        /\ dest[f] # None => dest[f] # part[g]
        /\ part[f] # None /\ f # g => part[f] # part[g]

\* The points of FetchOne at which the file is known not to verify.
Downloading == {"uri", "stat", "request", "open", "copy", "rename", "remove"}

\* A call c writes only to the partial file of a distfile that does not
\* verify, those before it do, and so do all after nil.
OnTrack(c) ==
    /\ c.k \in Nat \ {0}
    /\ c.pc \in Downloading \cup {"verify"} => c.k <= Len(Files)
    /\ IF c.pc = "copy" THEN c.fd = part[Files[c.k]] /\ c.fd # None ELSE c.fd = None
    /\ c.pc \in Downloading => ~Verified(Files[c.k])
    /\ \A j \in 1..(c.k - 1) : Verified(Files[j])
    /\ c.res = "nil" => \A f \in Names : Verified(f)

FetchInv == FetchShape /\ PartialApart /\ \A w \in Workers : OnTrack(call[w])

-----------------------------------------------------------------------------
(* Files and inodes *)

\* The values of a function on a finite set are no more than its arguments.
LEMMA ImageFinite ==
    ASSUME NEW S, IsFiniteSet(S), NEW f
    PROVE  IsFiniteSet({f[x] : x \in S}) /\ Cardinality({f[x] : x \in S}) <= Cardinality(S)
  <1> DEFINE T == {f[x] : x \in S}
             g == [x \in S |-> f[x]]
  <1>1. g \in [S -> T] /\ \A t \in T : \E x \in S : g[x] = t
    OBVIOUS
  <1>2. g \in Surjection(S, T)
    BY <1>1, Zenon DEF Surjection
  <1> QED BY <1>2, FS_Surjection

\* The distfiles are finitely many, and each has its place in the list.
LEMMA NamesFinite ==
    /\ IsFiniteSet(Names) /\ Len(Files) \in Nat
    /\ \A i \in 1..Len(Files) : Files[i] \in Names
    /\ \A f \in Names : \E i \in 1..Len(Files) : f = Files[i]
  <1>1. Len(Files) \in Nat /\ DOMAIN Files = 1..Len(Files)
    BY FilesAssumption
  <1>2. IsFiniteSet(1..Len(Files))
    BY <1>1, FS_Interval
  <1>3. IsFiniteSet(Names)
    BY <1>1, <1>2, ImageFinite DEF Names
  <1> QED BY <1>1, <1>3 DEF Names

\* A missing file does not verify.
LEMMA MissingFails == <<-1>> # Good
  <1>1. Good[1] = 1
    BY SizeAssumption DEF Good
  <1>2. <<-1>>[1] = -1
    OBVIOUS
  <1> QED BY <1>1, <1>2

\* Inodes are numbers from 1 on.
LEMMA NoneIsNoInode == None \notin Inodes
  BY DEF None, Inodes

\* There is always an inode for a new partial file while nothing is open.
LEMMA FreshExists ==
    ASSUME FetchShape, OneWorker, NEW w \in Workers, call[w].fd = None
    PROVE  FreshInode \in Inodes /\ FreshInode \notin InUse(dest, part, call)
  <1> DEFINE D == {dest[f] : f \in Names}
             P == {part[f] : f \in Names}
             n == Cardinality(Names)
  <1>1. IsFiniteSet(D) /\ Cardinality(D) <= n
    BY NamesFinite, ImageFinite
  <1>2. IsFiniteSet(P) /\ Cardinality(P) <= n
    BY NamesFinite, ImageFinite
  <1>3. n \in Nat /\ Cardinality(D) \in Nat /\ Cardinality(P) \in Nat
    BY <1>1, <1>2, NamesFinite, FS_CardinalityType
  <1>4. IsFiniteSet(D \cup P) /\ Cardinality(D \cup P) <= Cardinality(D) + Cardinality(P)
    <2>1. IsFiniteSet(D \cup P) /\ IsFiniteSet(D \cap P)
      BY <1>1, <1>2, FS_Union, FS_Intersection
    <2>2. Cardinality(D \cup P) = Cardinality(D) + Cardinality(P) - Cardinality(D \cap P)
      BY <1>1, <1>2, FS_Union
    <2>3. Cardinality(D \cap P) \in Nat
      BY <2>1, FS_CardinalityType
    <2> QED BY <1>3, <2>1, <2>2, <2>3
  <1>5. Cardinality(Workers) = 1
    <2>1. Workers = {w}
      BY DEF OneWorker
    <2> QED BY <2>1, FS_Singleton
  <1>6. Inodes = 1..(2 * n + 1)
    BY <1>5 DEF Inodes
  <1>7. IsFiniteSet(Inodes) /\ Cardinality(Inodes) = 2 * n + 1
    BY <1>3, <1>6, FS_Interval
  <1>8. ~(Inodes \subseteq D \cup P)
    <2>1. SUFFICES ASSUME Inodes \subseteq D \cup P PROVE FALSE
      OBVIOUS
    <2>2. Cardinality(Inodes) <= Cardinality(D \cup P)
      BY <1>4, <2>1, FS_Subset
    <2>3. Cardinality(D \cup P) \in Nat
      BY <1>4, FS_CardinalityType
    <2> HIDE DEF D, P, n
    <2> QED BY <1>1, <1>2, <1>3, <1>4, <1>7, <2>2, <2>3
  <1>9. PICK x \in Inodes : x \notin D \cup P
    BY <1>8
  <1>10. \A v \in Workers : call[v].fd = None
    BY DEF OneWorker
  <1>11. x \notin InUse(dest, part, call)
    BY <1>9, <1>10, NoneIsNoInode DEF InUse
  <1> QED BY <1>9, <1>11 DEF FreshInode

-----------------------------------------------------------------------------
(* Steps that leave the files alone *)

\* A step that leaves the files alone leaves the verdict on them alone, and
\* the invariant holds after it if the call it made is on track.
LEMMA ControlStep ==
    ASSUME FetchInv, OneWorker, NEW w \in Workers, UNCHANGED <<inode, dest, part>>,
           call' = [v \in Workers |-> call'[v]], IsCall(call'[w]), OnTrack(call'[w])
    PROVE  FetchInv' /\ \A f \in Names : Verified(f) => Verified(f)'
  <1>1. \A f : Verified(f)' <=> Verified(f)
    BY DEF Verified, Content
  <1>2. FetchShape'
    BY DEF FetchInv, FetchShape, OneWorker, IsCall
  <1>3. PartialApart'
    BY DEF FetchInv, PartialApart
  <1>4. \A v \in Workers : OnTrack(call[v])'
    BY <1>1 DEF OnTrack, OneWorker
  <1> QED BY <1>1, <1>2, <1>3, <1>4 DEF FetchInv

\* A call that has returned or has not begun.
LEMMA IdleIsCall ==
    ASSUME NEW r
    PROVE  /\ IsCall([NoFetch EXCEPT !.res = r]) /\ IsCall(NoFetch)
           /\ IsCall([NoFetch EXCEPT !.pc = "fetch"])
  BY DEF IsCall, CallFields, NoFetch

\* A package reaches its fetch step.
LEMMA FetchBegins ==
    ASSUME FetchInv, OneWorker, NEW w \in Workers, Fetch(w)
    PROVE  FetchInv' /\ \A f \in Names : Verified(f) => Verified(f)'
  <1>1. call' = [v \in Workers |-> call'[v]] /\ call'[w] = [NoFetch EXCEPT !.pc = "fetch"]
    BY DEF FetchInv, FetchShape, Fetch
  <1>2. OnTrack(call'[w])
    BY <1>1 DEF OnTrack, NoFetch, Downloading
  <1> QED BY <1>1, <1>2, IdleIsCall, ControlStep DEF Fetch

\* Fetch returns; nil after the last distfile.
LEMMA FetchEnds ==
    ASSUME FetchInv, OneWorker, NEW w \in Workers, FetchReturns(w)
    PROVE  FetchInv' /\ \A f \in Names : Verified(f) => Verified(f)'
  <1> DEFINE r == IF call[w].k > Len(Files) THEN "nil" ELSE "error"
  <1>1. call' = [v \in Workers |-> call'[v]] /\ call'[w] = [NoFetch EXCEPT !.res = r]
    BY DEF FetchInv, FetchShape, FetchReturns, Return
  <1>2. r = "nil" => \A f \in Names : Verified(f)
    <2>1. SUFFICES ASSUME call[w].k > Len(Files), NEW f \in Names PROVE Verified(f)
      OBVIOUS
    <2>2. PICK i \in 1..Len(Files) : f = Files[i]
      BY NamesFinite
    <2>3. i \in 1..(call[w].k - 1)
      BY <2>1, NamesFinite DEF FetchInv, OnTrack
    <2> QED BY <2>2, <2>3 DEF FetchInv, OnTrack
  <1>3. OnTrack(call'[w])
    <2> HIDE DEF r
    <2> QED BY <1>1, <1>2 DEF OnTrack, NoFetch, Downloading
  <1>4. IsCall(call'[w]) /\ UNCHANGED <<inode, dest, part>>
    BY <1>1, IdleIsCall, Zenon DEF FetchReturns
  <1> QED BY <1>1, <1>3, <1>4, ControlStep

\* A file that is there and verifies is passed over.
LEMMA FetchSkips ==
    ASSUME FetchInv, OneWorker, NEW w \in Workers, FetchOneSkips(w)
    PROVE  FetchInv' /\ \A f \in Names : Verified(f) => Verified(f)'
  <1>1. /\ call' = [v \in Workers |-> call'[v]] /\ IsCall(call'[w])
        /\ call'[w].pc = "fetch" /\ call'[w].k = call[w].k + 1
        /\ call'[w].fd = call[w].fd /\ call'[w].res = call[w].res
    BY DEF FetchInv, FetchShape, FetchOneSkips, IsCall, CallFields
  <1>2. OnTrack(call'[w])
    <2>1. OnTrack(call[w]) /\ call[w].pc = "fetch" /\ Verified(Files[call[w].k])
      BY DEF FetchInv, FetchOneSkips, File
    <2> QED BY <1>1, <2>1 DEF OnTrack, Downloading
  <1> QED BY <1>1, <1>2, ControlStep DEF FetchOneSkips

\* A file that does not verify is looked for at its URIs.
LEMMA FetchOneBegins ==
    ASSUME FetchInv, OneWorker, NEW w \in Workers, FetchOne(w)
    PROVE  FetchInv' /\ \A f \in Names : Verified(f) => Verified(f)'
  <1>1. /\ call' = [v \in Workers |-> call'[v]] /\ IsCall(call'[w])
        /\ call'[w].pc = "uri" /\ call'[w].k = call[w].k
        /\ call'[w].fd = call[w].fd /\ call'[w].res = call[w].res
    BY DEF FetchInv, FetchShape, FetchOne, IsCall, CallFields
  <1>2. OnTrack(call'[w])
    <2>1. /\ OnTrack(call[w]) /\ call[w].pc = "fetch" /\ ~Verified(Files[call[w].k])
          /\ call[w].k <= Len(Files)
      BY DEF FetchInv, FetchOne, File
    <2> QED BY <1>1, <2>1 DEF OnTrack, Downloading
  <1> QED BY <1>1, <1>2, ControlStep DEF FetchOne

\* The next URI, or the end of the call.
LEMMA TryURIKeeps ==
    ASSUME FetchInv, OneWorker, NEW w \in Workers, TryURI(w)
    PROVE  FetchInv' /\ \A f \in Names : Verified(f) => Verified(f)'
  <1>1. CASE call[w].uris = <<>> \/ call[w].done
    <2>1. call' = [v \in Workers |-> call'[v]] /\ call'[w] = [NoFetch EXCEPT !.res = "error"]
      BY <1>1 DEF FetchInv, FetchShape, TryURI, Return
    <2>2. OnTrack(call'[w])
      BY <2>1 DEF OnTrack, NoFetch, Downloading
    <2>3. IsCall(call'[w])
      BY <2>1, IdleIsCall, ZenonT(60)
    <2>4. UNCHANGED <<inode, dest, part>>
      BY DEF TryURI
    <2> QED BY <2>1, <2>2, <2>3, <2>4, ControlStep
  <1>2. CASE ~(call[w].uris = <<>> \/ call[w].done)
    <2>1. /\ call' = [v \in Workers |-> call'[v]] /\ IsCall(call'[w])
          /\ call'[w].pc = "stat" /\ call'[w].k = call[w].k
          /\ call'[w].fd = call[w].fd /\ call'[w].res = call[w].res
      <3>1. /\ call' = [v \in Workers |-> call'[v]]
            /\ call'[w] = [call[w] EXCEPT !.pc = "stat", !.attempt = 0]
        BY <1>2 DEF FetchInv, FetchShape, TryURI
      <3> QED BY <3>1 DEF FetchInv, FetchShape, IsCall, CallFields
    <2>2. OnTrack(call[w]) /\ call[w].pc = "uri"
      BY DEF FetchInv, TryURI
    <2>3. OnTrack(call'[w])
      BY <2>1, <2>2 DEF OnTrack, Downloading
    <2> QED BY <2>1, <2>3, ControlStep DEF TryURI
  <1> QED BY <1>1, <1>2

\* The size of the partial file is looked at.
LEMMA StatKeeps ==
    ASSUME FetchInv, OneWorker, NEW w \in Workers, GetExistingSize(w)
    PROVE  FetchInv' /\ \A f \in Names : Verified(f) => Verified(f)'
  <1>1. /\ call' = [v \in Workers |-> call'[v]] /\ IsCall(call'[w])
        /\ call'[w].pc = "request" /\ call'[w].k = call[w].k
        /\ call'[w].fd = call[w].fd /\ call'[w].res = call[w].res
    <2>1. /\ call' = [v \in Workers |-> call'[v]]
          /\ \E n : call'[w] = [call[w] EXCEPT !.pc = "request", !.have = n]
      BY DEF FetchInv, FetchShape, GetExistingSize
    <2> QED BY <2>1 DEF FetchInv, FetchShape, IsCall, CallFields
  <1>2. OnTrack(call[w]) /\ call[w].pc = "stat"
    BY DEF FetchInv, GetExistingSize
  <1>3. OnTrack(call'[w])
    BY <1>1, <1>2 DEF OnTrack, Downloading
  <1> QED BY <1>1, <1>3, ControlStep DEF GetExistingSize

\* After a failed attempt the call is at the next attempt or the next URI,
\* with nothing open.
LEMMA AttemptFails ==
    ASSUME FetchInv, NEW w \in Workers, AttemptFailed(w)
    PROVE  /\ call' = [v \in Workers |-> call'[v]] /\ IsCall(call'[w])
           /\ call'[w].pc \in {"uri", "stat"} /\ call'[w].k = call[w].k
           /\ call'[w].fd = None /\ call'[w].res = call[w].res
  <1> DEFINE c == [call[w] EXCEPT !.fd = None, !.body = <<>>, !.have = 0, !.status = 0]
  <1>0. IsCall(c) /\ c.fd = None /\ c.k = call[w].k /\ c.res = call[w].res
    BY DEF FetchInv, FetchShape, IsCall, CallFields
  <1>1. CASE GivesUp(w)
    <2>1. call' = [call EXCEPT ![w] = [c EXCEPT !.pc = "uri", !.uris = Tail(@), !.attempt = 0]]
      BY <1>1 DEF AttemptFailed
    <2>2. /\ call' = [v \in Workers |-> call'[v]]
          /\ call'[w] = [c EXCEPT !.pc = "uri", !.uris = Tail(@), !.attempt = 0]
      <3> HIDE DEF c
      <3> QED BY <2>1 DEF FetchInv, FetchShape
    <2> HIDE DEF c
    <2> QED BY <1>0, <2>2 DEF IsCall, CallFields
  <1>2. CASE ~GivesUp(w)
    <2>1. call' = [call EXCEPT ![w] = [c EXCEPT !.pc = "stat", !.attempt = @ + 1]]
      BY <1>2 DEF AttemptFailed
    <2>2. /\ call' = [v \in Workers |-> call'[v]]
          /\ call'[w] = [c EXCEPT !.pc = "stat", !.attempt = @ + 1]
      <3> HIDE DEF c
      <3> QED BY <2>1 DEF FetchInv, FetchShape
    <2> HIDE DEF c
    <2> QED BY <1>0, <2>2 DEF IsCall, CallFields
  <1> QED BY <1>1, <1>2

\* A server answers, or the request fails.
LEMMA RequestKeeps ==
    ASSUME FetchInv, OneWorker, NEW w \in Workers, ExecuteRequest(w)
    PROVE  FetchInv' /\ \A f \in Names : Verified(f) => Verified(f)'
  <1>1. /\ call' = [v \in Workers |-> call'[v]] /\ IsCall(call'[w])
        /\ call'[w].pc \in {"open", "uri", "stat"} /\ call'[w].k = call[w].k
        /\ call'[w].fd = None /\ call'[w].res = call[w].res
    <2>1. CASE AttemptFailed(w)
      BY <2>1, AttemptFails
    <2>2. CASE \E a \in Answers(call[w].have) :
                 call' = [call EXCEPT ![w].pc = "open", ![w].status = a.status,
                                      ![w].have = Kept(a, @), ![w].body = a.body]
      <3>1. call[w].fd = None
        BY DEF FetchInv, OnTrack, ExecuteRequest
      <3>2. PICK a \in Answers(call[w].have) :
                 call' = [call EXCEPT ![w].pc = "open", ![w].status = a.status,
                                      ![w].have = Kept(a, @), ![w].body = a.body]
        BY <2>2
      <3>3. call' = [v \in Workers |-> call'[v]]
        BY <3>2 DEF FetchInv, FetchShape
      <3>4. call'[w] = [call[w] EXCEPT !.pc = "open", !.status = a.status,
                                       !.have = Kept(a, @), !.body = a.body]
        BY <3>2 DEF FetchInv, FetchShape
      <3> QED BY <3>1, <3>3, <3>4 DEF FetchInv, FetchShape, IsCall, CallFields
    <2> QED BY <2>1, <2>2 DEF ExecuteRequest
  <1>2. OnTrack(call[w]) /\ call[w].pc = "request"
    BY DEF FetchInv, ExecuteRequest
  <1>3. OnTrack(call'[w])
    BY <1>1, <1>2 DEF OnTrack, Downloading
  <1> QED BY <1>1, <1>3, ControlStep DEF ExecuteRequest

\* The checksum of the renamed file decides.
LEMMA VerifyKeeps ==
    ASSUME FetchInv, OneWorker, NEW w \in Workers, VerifyDownload(w)
    PROVE  FetchInv' /\ \A f \in Names : Verified(f) => Verified(f)'
  <1>1. OnTrack(call[w]) /\ call[w].pc = "verify"
    BY DEF FetchInv, VerifyDownload
  <1>2. CASE Verified(File(w))
    <2>1. /\ call' = [v \in Workers |-> call'[v]] /\ IsCall(call'[w])
          /\ call'[w].pc = "fetch" /\ call'[w].k = call[w].k + 1
          /\ call'[w].fd = call[w].fd /\ call'[w].res = call[w].res
      <3>1. /\ call' = [v \in Workers |-> call'[v]]
            /\ call'[w] = [call[w] EXCEPT !.pc = "fetch", !.k = @ + 1, !.uris = <<>>,
                                          !.have = 0, !.status = 0, !.attempt = 0]
        BY <1>2 DEF FetchInv, FetchShape, VerifyDownload
      <3> QED BY <3>1 DEF FetchInv, FetchShape, IsCall, CallFields
    <2>2. OnTrack(call'[w])
      BY <1>1, <1>2, <2>1 DEF OnTrack, Downloading, File
    <2> QED BY <2>1, <2>2, ControlStep DEF VerifyDownload
  <1>3. CASE ~Verified(File(w))
    <2>1. /\ call' = [v \in Workers |-> call'[v]] /\ IsCall(call'[w])
          /\ call'[w].pc = "remove" /\ call'[w].k = call[w].k
          /\ call'[w].fd = call[w].fd /\ call'[w].res = call[w].res
      BY <1>3 DEF FetchInv, FetchShape, VerifyDownload, IsCall, CallFields
    <2>2. OnTrack(call'[w])
      BY <1>1, <1>3, <2>1 DEF OnTrack, Downloading, File
    <2> QED BY <2>1, <2>2, ControlStep DEF VerifyDownload
  <1> QED BY <1>2, <1>3

\* The context of the call ends.
LEMMA CancelKeeps ==
    ASSUME FetchInv, OneWorker, NEW w \in Workers, ContextEnds(w)
    PROVE  FetchInv' /\ \A f \in Names : Verified(f) => Verified(f)'
  <1>1. /\ call' = [v \in Workers |-> call'[v]] /\ IsCall(call'[w])
        /\ call'[w].pc = call[w].pc /\ call'[w].k = call[w].k
        /\ call'[w].fd = call[w].fd /\ call'[w].res = call[w].res
    BY DEF FetchInv, FetchShape, ContextEnds, IsCall, CallFields
  <1>2. OnTrack(call[w])
    BY DEF FetchInv
  <1>3. OnTrack(call'[w])
    BY <1>1, <1>2 DEF OnTrack
  <1> QED BY <1>1, <1>3, ControlStep DEF ContextEnds

-----------------------------------------------------------------------------
(* Steps on the files *)

\* While a distfile is downloaded, its name is one of the list.
LEMMA FileIsName ==
    ASSUME FetchInv, NEW w \in Workers, call[w].pc \in Downloading \cup {"verify"}
    PROVE  File(w) \in Names /\ File(w) = Files[call[w].k]
  <1>1. call[w].k \in 1..Len(Files)
    BY NamesFinite DEF FetchInv, OnTrack
  <1> QED BY <1>1, NamesFinite DEF File

\* Freeing inodes never touches a file that keeps its name.
LEMMA FreedKeeps ==
    ASSUME inode' = Freed(inode, dest', part', call'), NEW f \in Names,
           dest'[f] = dest[f], dest[f] \in Inodes \cup {None}
    PROVE  Verified(f)' <=> Verified(f)
  <1>1. dest[f] # None => inode'[dest[f]] = inode[dest[f]]
    BY DEF Freed, InUse
  <1> QED BY <1>1 DEF Verified, Content

\* A step of a download that leaves what verifies as it is.
LEMMA FileStep ==
    ASSUME FetchInv, OneWorker, NEW w \in Workers,
           inode' = [i \in Inodes |-> inode'[i]], dest' = dest,
           part' \in [Names -> Inodes \cup {None}], PartialApart',
           call' = [v \in Workers |-> call'[v]], IsCall(call'[w]),
           \A g \in Names : Verified(g)' <=> Verified(g),
           call[w].pc \in Downloading, call'[w].pc \in Downloading,
           call'[w].k = call[w].k, call'[w].res = call[w].res,
           IF call'[w].pc = "copy" THEN call'[w].fd = part'[File(w)] /\ call'[w].fd # None
           ELSE call'[w].fd = None
    PROVE  FetchInv' /\ \A f \in Names : Verified(f) => Verified(f)'
  <1>1. FetchShape'
    BY DEF FetchInv, FetchShape, OneWorker, IsCall
  <1>2. File(w) \in Names /\ File(w) = Files[call[w].k]
    BY FileIsName
  <1>3. \A j \in 1..(call[w].k - 1) : Files[j] \in Names
    BY NamesFinite DEF FetchInv, OnTrack
  <1>4. OnTrack(call[w])
    BY DEF FetchInv
  <1>5. OnTrack(call[w])'
    BY <1>2, <1>3, <1>4 DEF OnTrack
  <1> QED BY <1>1, <1>5 DEF FetchInv, OneWorker

\* openOutputFile appends to the partial file, cuts it, or makes a new one;
\* no finished file is touched.
LEMMA OpenKeeps ==
    ASSUME FetchInv, OneWorker, NEW w \in Workers, OpenOutputFile(w)
    PROVE  FetchInv' /\ \A f \in Names : Verified(f) => Verified(f)'
  <1> DEFINE f == File(w)
             fd == IF part[f] = None THEN FreshInode ELSE part[f]
             append == call[w].have > 0 /\ call[w].status = 206
  <1>1. OnTrack(call[w]) /\ call[w].pc = "open" /\ call[w].fd = None
    BY DEF FetchInv, OpenOutputFile, OnTrack
  <1>2. f \in Names /\ f = Files[call[w].k] /\ call[w].pc \in Downloading
    BY <1>1, FileIsName DEF Downloading
  <1>3. CASE append /\ part[f] = None
    <2>1. AttemptFailed(w) /\ UNCHANGED <<inode, part>>
      BY <1>3 DEF OpenOutputFile
    <2>2. OnTrack(call'[w])
      BY <1>1, <2>1, AttemptFails DEF OnTrack, Downloading
    <2>3. UNCHANGED dest
      BY DEF OpenOutputFile
    <2> QED BY <2>1, <2>2, <2>3, AttemptFails, ControlStep
  <1>4. CASE ~(append /\ part[f] = None)
    <2>1. /\ inode' = IF append THEN inode ELSE [inode EXCEPT ![fd] = <<>>]
          /\ part' = [part EXCEPT ![f] = fd]
          /\ call' = [call EXCEPT ![w].pc = "copy", ![w].fd = fd]
      BY <1>4 DEF OpenOutputFile
    <2>2. dest' = dest
      BY DEF OpenOutputFile
    <2>3. /\ fd \in Inodes
          /\ \A g \in Names : dest[g] # fd
          /\ \A g \in Names : g # f => part[g] # fd
      <3>1. CASE part[f] = None
        <4>1. FreshInode \in Inodes /\ FreshInode \notin InUse(dest, part, call)
          BY <1>1, FreshExists DEF FetchInv
        <4> QED BY <3>1, <4>1 DEF InUse
      <3>2. CASE part[f] # None
        BY <1>2, <3>2 DEF FetchInv, FetchShape, PartialApart
      <3> QED BY <3>1, <3>2
    <2>4. fd # None
      BY <2>3, NoneIsNoInode
    <2> HIDE DEF fd, append
    <2>5. inode' = [i \in Inodes |-> inode'[i]] /\ \A i \in Inodes : i # fd => inode'[i] = inode[i]
      BY <2>1 DEF FetchInv, FetchShape
    <2>6. \A g \in Names : Verified(g)' <=> Verified(g)
      BY <2>2, <2>3, <2>5 DEF Verified, Content, FetchInv, FetchShape
    <2>7. part' \in [Names -> Inodes \cup {None}] /\ part'[f] = fd /\ \A g \in Names : g # f => part'[g] = part[g]
      BY <1>2, <2>1, <2>3 DEF FetchInv, FetchShape
    <2>8. PartialApart'
      BY <2>2, <2>3, <2>7 DEF FetchInv, PartialApart
    <2>9. /\ call' = [v \in Workers |-> call'[v]]
          /\ call'[w] = [call[w] EXCEPT !.pc = "copy", !.fd = fd]
      BY <2>1 DEF FetchInv, FetchShape
    <2>10. /\ IsCall(call'[w]) /\ call'[w].pc = "copy" /\ call'[w].fd = fd
           /\ call'[w].k = call[w].k /\ call'[w].res = call[w].res
      BY <2>9 DEF FetchInv, FetchShape, IsCall, CallFields
    <2>11. call'[w].pc \in Downloading
      BY <2>10 DEF Downloading
    <2> QED BY <1>2, <2>2, <2>4, <2>5, <2>6, <2>7, <2>8, <2>9, <2>10, <2>11, FileStep
  <1> QED BY <1>3, <1>4

\* A block is written to the partial file.
LEMMA CopyBlockKeeps ==
    ASSUME FetchInv, OneWorker, NEW w \in Workers, CopyBlock(w)
    PROVE  FetchInv' /\ \A f \in Names : Verified(f) => Verified(f)'
  <1> DEFINE fd == call[w].fd
  <1>1. OnTrack(call[w]) /\ call[w].pc = "copy"
    BY DEF FetchInv, CopyBlock
  <1>2. File(w) \in Names /\ File(w) = Files[call[w].k] /\ call[w].pc \in Downloading
    BY <1>1, FileIsName DEF Downloading
  <1>3. fd = part[File(w)] /\ fd # None
    BY <1>1, <1>2 DEF OnTrack
  <1>4. \A g \in Names : dest[g] # fd
    BY <1>2, <1>3 DEF FetchInv, PartialApart
  <1>5. inode' = [i \in Inodes |-> inode'[i]] /\ \A i \in Inodes : i # fd => inode'[i] = inode[i]
    <2>1. \E b : inode' = [inode EXCEPT ![fd] = b]
      BY DEF CopyBlock
    <2> QED BY <2>1 DEF FetchInv, FetchShape
  <1>6. dest' = dest /\ part' = part
    BY DEF CopyBlock
  <1>7. \A g \in Names : Verified(g)' <=> Verified(g)
    BY <1>4, <1>5, <1>6 DEF Verified, Content, FetchInv, FetchShape
  <1>8. PartialApart' /\ part' \in [Names -> Inodes \cup {None}]
    BY <1>6 DEF FetchInv, FetchShape, PartialApart
  <1>9. /\ call' = [v \in Workers |-> call'[v]]
        /\ call'[w] = [call[w] EXCEPT !.body = Tail(@), !.have = @ + 1]
    BY DEF FetchInv, FetchShape, CopyBlock
  <1>10. /\ IsCall(call'[w]) /\ call'[w].pc = call[w].pc /\ call'[w].fd = fd
         /\ call'[w].k = call[w].k /\ call'[w].res = call[w].res
    BY <1>9 DEF FetchInv, FetchShape, IsCall, CallFields
  <1> QED BY <1>1, <1>2, <1>3, <1>5, <1>6, <1>7, <1>8, <1>9, <1>10, FileStep

\* The partial file is closed, whole or not.
LEMMA CloseKeeps ==
    ASSUME FetchInv, OneWorker, NEW w \in Workers, CopyEOF(w) \/ CopyFails(w)
    PROVE  FetchInv' /\ \A f \in Names : Verified(f) => Verified(f)'
  <1>1. OnTrack(call[w]) /\ call[w].pc = "copy"
    BY DEF FetchInv, CopyEOF, CopyFails
  <1>2. call[w].pc \in Downloading
    BY <1>1 DEF Downloading
  <1>3. inode' = Freed(inode, dest, part, call') /\ dest' = dest /\ part' = part
    BY DEF CopyEOF, CopyFails
  <1>4. inode' = [i \in Inodes |-> inode'[i]]
    BY <1>3 DEF Freed
  <1>5. \A g \in Names : Verified(g)' <=> Verified(g)
    <2>1. TAKE g \in Names
    <2>2. dest'[g] = dest[g] /\ dest[g] \in Inodes \cup {None}
      BY <1>3 DEF FetchInv, FetchShape
    <2>3. inode' = Freed(inode, dest', part', call')
      BY <1>3
    <2> QED BY <2>2, <2>3, FreedKeeps
  <1>6. PartialApart' /\ part' \in [Names -> Inodes \cup {None}]
    BY <1>3 DEF FetchInv, FetchShape, PartialApart
  <1>7. /\ call' = [v \in Workers |-> call'[v]] /\ IsCall(call'[w])
        /\ call'[w].pc \in {"rename", "uri", "stat"} /\ call'[w].k = call[w].k
        /\ call'[w].fd = None /\ call'[w].res = call[w].res
    <2>1. CASE AttemptFailed(w)
      BY <2>1, AttemptFails
    <2>2. CASE call' = [call EXCEPT ![w].pc = "rename", ![w].fd = None]
      <3>1. /\ call' = [v \in Workers |-> call'[v]]
            /\ call'[w] = [call[w] EXCEPT !.pc = "rename", !.fd = None]
        BY <2>2 DEF FetchInv, FetchShape
      <3> QED BY <3>1 DEF FetchInv, FetchShape, IsCall, CallFields
    <2> QED BY <2>1, <2>2 DEF CopyEOF, CopyFails
  <1>8. call'[w].pc \in Downloading /\ call'[w].pc # "copy"
    BY <1>7 DEF Downloading
  <1> QED BY <1>2, <1>3, <1>4, <1>5, <1>6, <1>7, <1>8, FileStep

\* The distfile at hand gets another file under its name, or none: the others
\* stay, and it did not verify before.
LEMMA ReplaceKeeps ==
    ASSUME FetchInv, OneWorker, NEW w \in Workers, call[w].pc \in Downloading,
           NEW x \in Inodes \cup {None}, dest' = [dest EXCEPT ![File(w)] = x],
           part' \in [Names -> Inodes \cup {None}], PartialApart',
           inode' = Freed(inode, dest', part', call'),
           call' = [v \in Workers |-> call'[v]], IsCall(call'[w]),
           call'[w].k = call[w].k, call'[w].res = call[w].res, call'[w].fd = None,
           call'[w].pc = "verify" \/ (call'[w].pc = "uri" /\ x = None)
    PROVE  FetchInv' /\ \A f \in Names : Verified(f) => Verified(f)'
  <1>1. OnTrack(call[w]) /\ File(w) \in Names /\ File(w) = Files[call[w].k] /\ ~Verified(File(w))
    BY FileIsName DEF FetchInv, OnTrack
  <1>2. /\ dest' \in [Names -> Inodes \cup {None}] /\ dest'[File(w)] = x
        /\ \A g \in Names : g # File(w) => dest'[g] = dest[g]
    BY <1>1 DEF FetchInv, FetchShape
  <1>3. \A g \in Names : Verified(g) => Verified(g)'
    <2>1. SUFFICES ASSUME NEW g \in Names, Verified(g) PROVE Verified(g)'
      OBVIOUS
    <2>2. dest'[g] = dest[g] /\ dest[g] \in Inodes \cup {None}
      BY <1>1, <1>2, <2>1 DEF FetchInv, FetchShape
    <2> QED BY <2>1, <2>2, FreedKeeps
  <1>4. FetchShape'
    <2>1. inode' = [i \in Inodes |-> inode'[i]]
      BY DEF Freed
    <2> QED BY <1>2, <2>1 DEF FetchInv, FetchShape, OneWorker, IsCall
  <1>5. call'[w].pc = "uri" => ~Verified(File(w))'
    <2>1. SUFFICES ASSUME x = None PROVE dest'[File(w)] = None
      BY MissingFails DEF Verified, Content, File
    <2> QED BY <1>2, <2>1
  <1>6. \A j \in 1..(call[w].k - 1) : Files[j] \in Names
    BY <1>1, NamesFinite DEF FetchInv, OnTrack, Downloading
  <1>7. call[w].res # "nil"
    BY <1>1 DEF OnTrack
  <1>8. call[w].k <= Len(Files)
    BY DEF FetchInv, OnTrack
  <1>9. OnTrack(call[w])'
    <2>1. CASE call'[w].pc = "verify"
      BY <1>1, <1>3, <1>6, <1>7, <1>8, <2>1 DEF OnTrack, Downloading
    <2>2. CASE call'[w].pc = "uri"
      <3>1. ~Verified(Files[call[w].k])'
        BY <1>1, <1>5, <2>2 DEF File
      <3> QED BY <1>1, <1>3, <1>6, <1>7, <1>8, <2>2, <3>1 DEF OnTrack, Downloading
    <2> QED BY <2>1, <2>2
  <1> QED BY <1>3, <1>4, <1>9 DEF FetchInv, OneWorker

\* The partial file gets the final name.
LEMMA RenameKeeps ==
    ASSUME FetchInv, OneWorker, NEW w \in Workers, Rename(w)
    PROVE  FetchInv' /\ \A f \in Names : Verified(f) => Verified(f)'
  <1> DEFINE f == File(w)
  <1>1. OnTrack(call[w]) /\ call[w].pc = "rename" /\ call[w].fd = None
    BY DEF FetchInv, Rename, OnTrack
  <1>2. f \in Names /\ call[w].pc \in Downloading
    BY <1>1, FileIsName DEF Downloading
  <1>3. CASE part[f] = None
    <2>1. AttemptFailed(w) /\ UNCHANGED <<inode, dest, part>>
      BY <1>3 DEF Rename
    <2>2. OnTrack(call'[w])
      BY <1>1, <2>1, AttemptFails DEF OnTrack, Downloading
    <2> QED BY <2>1, <2>2, AttemptFails, ControlStep
  <1>4. CASE part[f] # None
    <2>1. /\ dest' = [dest EXCEPT ![f] = part[f]]
          /\ part' = [part EXCEPT ![f] = None]
          /\ call' = [call EXCEPT ![w].pc = "verify"]
          /\ inode' = Freed(inode, dest', part', call')
      BY <1>4 DEF Rename
    <2>2. part[f] \in Inodes \cup {None}
      BY <1>2 DEF FetchInv, FetchShape
    <2>3. part' \in [Names -> Inodes \cup {None}] /\ PartialApart'
      <3>1. /\ part' \in [Names -> Inodes \cup {None}] /\ part'[f] = None /\ dest'[f] = part[f]
            /\ \A g \in Names : g # f => dest'[g] = dest[g] /\ part'[g] = part[g]
        BY <1>2, <2>1 DEF FetchInv, FetchShape
      <3> QED BY <1>2, <1>4, <3>1 DEF FetchInv, PartialApart
    <2>4. /\ call' = [v \in Workers |-> call'[v]]
          /\ call'[w] = [call[w] EXCEPT !.pc = "verify"]
      BY <2>1 DEF FetchInv, FetchShape
    <2>5. /\ IsCall(call'[w]) /\ call'[w].pc = "verify" /\ call'[w].k = call[w].k
          /\ call'[w].fd = call[w].fd /\ call'[w].res = call[w].res
      BY <2>4 DEF FetchInv, FetchShape, IsCall, CallFields
    <2> QED BY <1>1, <1>2, <2>1, <2>2, <2>3, <2>4, <2>5, ReplaceKeeps
  <1> QED BY <1>3, <1>4

\* A file that failed the check is removed.
LEMMA RemoveKeeps ==
    ASSUME FetchInv, OneWorker, NEW w \in Workers, RemoveCorrupt(w)
    PROVE  FetchInv' /\ \A f \in Names : Verified(f) => Verified(f)'
  <1> DEFINE f == File(w)
  <1>1. OnTrack(call[w]) /\ call[w].pc = "remove" /\ call[w].fd = None
    BY DEF FetchInv, RemoveCorrupt, OnTrack
  <1>2. f \in Names /\ call[w].pc \in Downloading
    BY <1>1, FileIsName DEF Downloading
  <1>3. /\ dest' = [dest EXCEPT ![f] = None] /\ part' = part
        /\ inode' = Freed(inode, dest', part', call')
    BY DEF RemoveCorrupt
  <1>4. part' \in [Names -> Inodes \cup {None}] /\ PartialApart'
    <2>1. \A g \in Names : dest'[g] = dest[g] \/ dest'[g] = None
      BY <1>3 DEF FetchInv, FetchShape
    <2> QED BY <1>3, <2>1 DEF FetchInv, FetchShape, PartialApart
  <1>5. /\ call' = [v \in Workers |-> call'[v]]
        /\ call'[w] = [call[w] EXCEPT !.pc = "uri", !.uris = Tail(@), !.attempt = 0,
                                      !.have = 0, !.status = 0]
    BY DEF FetchInv, FetchShape, RemoveCorrupt
  <1>6. /\ IsCall(call'[w]) /\ call'[w].pc = "uri" /\ call'[w].k = call[w].k
        /\ call'[w].fd = call[w].fd /\ call'[w].res = call[w].res
    BY <1>5 DEF FetchInv, FetchShape, IsCall, CallFields
  <1>7. None \in Inodes \cup {None}
    OBVIOUS
  <1> QED BY <1>1, <1>2, <1>3, <1>4, <1>5, <1>6, <1>7, ReplaceKeeps

\* The process is killed; the files stay.
LEMMA CrashKeeps ==
    ASSUME FetchInv, OneWorker, Crash
    PROVE  FetchInv' /\ \A f \in Names : Verified(f) => Verified(f)'
  <1>1. /\ call' = [w \in Workers |-> NoFetch] /\ dest' = dest /\ part' = part
        /\ inode' = Freed(inode, dest', part', call')
    BY DEF Crash
  <1>2. \A g \in Names : Verified(g)' <=> Verified(g)
    <2>1. TAKE g \in Names
    <2>2. dest'[g] = dest[g] /\ dest[g] \in Inodes \cup {None}
      BY <1>1 DEF FetchInv, FetchShape
    <2> QED BY <1>1, <2>2, FreedKeeps
  <1>3. FetchShape'
    <2>1. inode' = [i \in Inodes |-> inode'[i]]
      BY <1>1 DEF Freed
    <2>2. call' = [w \in Workers |-> call'[w]] /\ \A w \in Workers : IsCall(call'[w])
      BY <1>1, IdleIsCall
    <2> QED BY <1>1, <2>1, <2>2 DEF FetchInv, FetchShape, IsCall
  <1>4. PartialApart'
    BY <1>1 DEF FetchInv, PartialApart
  <1>5. \A w \in Workers : OnTrack(call[w])'
    BY <1>1 DEF OnTrack, NoFetch, Downloading
  <1> QED BY <1>2, <1>3, <1>4, <1>5 DEF FetchInv

-----------------------------------------------------------------------------
(* The theorems *)

\* Nothing is there and nobody fetches at first.
LEMMA FetchInvInit == Init => FetchInv
  <1> SUFFICES ASSUME Init PROVE FetchInv
    OBVIOUS
  <1>1. FetchShape
    <2>1. \A w \in Workers : IsCall(call[w])
      BY IdleIsCall DEF Init
    <2> QED BY <2>1 DEF FetchShape, Init
  <1>2. PartialApart
    BY DEF Init, PartialApart
  <1>3. \A w \in Workers : OnTrack(call[w])
    BY DEF Init, OnTrack, NoFetch, Downloading
  <1> QED BY <1>1, <1>2, <1>3 DEF FetchInv

\* Every step keeps the invariant and every verified file.
LEMMA FetchInvNext ==
    ASSUME OneWorker, FetchInv, [Next]_vars
    PROVE  FetchInv' /\ \A f \in Names : Verified(f) => Verified(f)'
  <1>1. ASSUME NEW w \in Workers, Fetch(w) \/ Step(w) \/ ContextEnds(w)
        PROVE  FetchInv' /\ \A f \in Names : Verified(f) => Verified(f)'
    BY <1>1, FetchBegins, FetchEnds, FetchSkips, FetchOneBegins, TryURIKeeps, StatKeeps,
       RequestKeeps, OpenKeeps, CopyBlockKeeps, CloseKeeps, RenameKeeps, VerifyKeeps,
       RemoveKeeps, CancelKeeps, Zenon DEF Step
  <1>2. CASE Crash
    BY <1>2, CrashKeeps
  <1>3. CASE ServersRecover \/ UNCHANGED vars
    <2>1. UNCHANGED <<inode, dest, part, call>>
      BY <1>3 DEF ServersRecover, vars
    <2>2. \A f : Verified(f)' <=> Verified(f)
      BY <2>1 DEF Verified, Content
    <2>3. FetchShape'
      BY <2>1 DEF FetchInv, FetchShape, IsCall
    <2>4. PartialApart'
      BY <2>1 DEF FetchInv, PartialApart
    <2>5. \A w \in Workers : OnTrack(call[w])'
      BY <2>1, <2>2 DEF FetchInv, OnTrack
    <2> QED BY <2>2, <2>3, <2>4, <2>5 DEF FetchInv
  <1> QED BY <1>1, <1>2, <1>3 DEF Next

\* For one worker, whatever the servers answer, whenever the process is
\* killed or the context ends and whatever was left behind: a Fetch that has
\* returned nil leaves every distfile verified under its final name, and a
\* verified distfile is never damaged, replaced or removed again.
THEOREM FetchVerifies ==
    ASSUME OneWorker
    PROVE  Spec => VerifiedForGood
  <1>1. Spec => []FetchInv
    <2>1. FetchInv /\ [Next]_vars => FetchInv'
      BY FetchInvNext
    <2> QED BY <2>1, FetchInvInit, PTL DEF Spec
  <1>2. FetchInv => NilMeansVerified
    BY DEF FetchInv, OnTrack, NilMeansVerified
  <1>3. FetchInv /\ [Next]_vars => [\A f \in Names : Verified(f) => Verified(f)']_vars
    BY FetchInvNext
  <1> QED BY <1>1, <1>2, <1>3, PTL DEF Spec, VerifiedForGood, VerifiedKept

=============================================================================
