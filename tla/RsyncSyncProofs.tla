--------------------------- MODULE RsyncSyncProofs ---------------------------
(***************************************************************************)
(* What a synchronisation leaves behind, for any number of mirrors and     *)
(* names, any listings, any capacity of the network and of the flow        *)
(* control channel and any number of faults: see NilMeansMirrored and      *)
(* ReplacedWholeDeletedLast in RsyncSync.                                  *)
(***************************************************************************)
EXTENDS RsyncSync, TLAPS

-----------------------------------------------------------------------------
(* Sequences of messages.                                                  *)

\* A file list with entries left out names nothing new.
LEMMA PartsAreLists ==
    ASSUME NEW L \in Seq(Names), NEW f \in Parts(L)
    PROVE  f \in Seq(Names) /\ Range(f) \subseteq Range(L)
<1>1. PICK q \in UNION {[1..n -> 1..Len(L)] : n \in 0..Len(L)} : f = [i \in DOMAIN q |-> L[q[i]]]
  BY DEF Parts
<1>2. PICK n \in 0..Len(L) : q \in [1..n -> 1..Len(L)]
  BY <1>1
<1>3. n \in Nat /\ DOMAIN L = 1..Len(L) /\ \A i \in 1..Len(L) : L[i] \in Names
  OBVIOUS
<1>4. f \in [1..n -> Names]
  <2>1. DOMAIN q = 1..n /\ \A i \in 1..n : q[i] \in DOMAIN L
    BY <1>2, <1>3
  <2>2. \A i \in 1..n : L[q[i]] \in Names
    BY <1>3, <2>1
  <2>3. f = [i \in 1..n |-> L[q[i]]]
    BY <1>1, <2>1, Zenon
  <2> QED BY <2>2, <2>3
<1>5. f \in Seq(Names)
  BY <1>3, <1>4
<1>6. ASSUME NEW x \in Range(f) PROVE x \in Range(L)
  <2>1. PICK i \in 1..n : x = L[q[i]]
    BY <1>1, <1>2, <1>6 DEF Range
  <2> QED BY <1>2, <1>3, <2>1 DEF Range
<1> QED BY <1>5, <1>6

\* The members of a sequence are its elements.
LEMMA RangeAt ==
    ASSUME NEW S, NEW r \in Seq(S)
    PROVE  /\ Len(r) \in Nat /\ DOMAIN r = 1..Len(r)
           /\ \A i \in 1..Len(r) : r[i] \in S /\ r[i] \in Range(r)
           /\ \A x \in Range(r) : x \in S /\ \E i \in 1..Len(r) : r[i] = x
<1>1. Len(r) \in Nat /\ DOMAIN r = 1..Len(r)
  OBVIOUS
<1> QED BY <1>1 DEF Range

LEMMA RangeOfEmpty == Range(<<>>) = {}
BY DEF Range

LEMMA RangeOfTail ==
    ASSUME NEW S, NEW r \in Seq(S), r # <<>>
    PROVE  /\ Tail(r) \in Seq(S) /\ Len(Tail(r)) = Len(r) - 1 /\ Len(r) \in Nat \ {0}
           /\ \A i \in 1..Len(Tail(r)) : Tail(r)[i] = r[i + 1]
           /\ Head(r) = r[1] /\ Head(r) \in S
           /\ Range(r) = {Head(r)} \cup Range(Tail(r))
<1> DEFINE t == Tail(r)
<1>1. /\ t \in Seq(S) /\ Len(t) = Len(r) - 1 /\ Len(r) \in Nat \ {0}
      /\ \A i \in 1..Len(t) : t[i] = r[i + 1]
      /\ Head(r) = r[1] /\ Head(r) \in S
  OBVIOUS
<1> HIDE DEF t
<1>2. DOMAIN r = 1..Len(r) /\ DOMAIN t = 1..Len(t)
  BY <1>1
<1>3. ASSUME NEW x \in Range(r) PROVE x = Head(r) \/ x \in Range(t)
  <2>1. PICK i \in 1..Len(r) : r[i] = x
    BY <1>2, <1>3 DEF Range
  <2>2. CASE i # 1
    <3>1. i - 1 \in 1..Len(t) /\ (i - 1) + 1 = i
      BY <1>1, <2>2
    <3>2. t[i - 1] = x
      BY <1>1, <2>1, <3>1
    <3> QED BY <1>2, <3>1, <3>2 DEF Range
  <2> QED BY <1>1, <2>1, <2>2
<1>4. ASSUME NEW x \in Range(t) PROVE x \in Range(r)
  <2>1. PICK i \in 1..Len(t) : t[i] = x
    BY <1>2, <1>4 DEF Range
  <2>2. i + 1 \in 1..Len(r) /\ r[i + 1] = x
    BY <1>1, <2>1
  <2> QED BY <1>2, <2>2 DEF Range
<1>5. Head(r) \in Range(r)
  BY <1>1, <1>2 DEF Range
<1>6. Range(r) = {Head(r)} \cup Range(t)
  BY <1>3, <1>4, <1>5
<1> QED BY <1>1, <1>6 DEF t

LEMMA RangeOfAppend ==
    ASSUME NEW S, NEW r \in Seq(S), NEW x \in S
    PROVE  /\ Append(r, x) \in Seq(S) /\ Len(Append(r, x)) = Len(r) + 1 /\ Len(r) \in Nat
           /\ \A i \in 1..Len(r) : Append(r, x)[i] = r[i]
           /\ Append(r, x)[Len(r) + 1] = x
           /\ Range(Append(r, x)) = Range(r) \cup {x}
<1> DEFINE t == Append(r, x)
<1>1. /\ t \in Seq(S) /\ Len(t) = Len(r) + 1 /\ Len(r) \in Nat
      /\ \A i \in 1..Len(r) : t[i] = r[i]
      /\ t[Len(r) + 1] = x
  OBVIOUS
<1> HIDE DEF t
<1>2. DOMAIN r = 1..Len(r) /\ DOMAIN t = 1..Len(t)
  BY <1>1
<1>3. ASSUME NEW y \in Range(t) PROVE y \in Range(r) \cup {x}
  <2>1. PICK i \in 1..Len(t) : t[i] = y
    BY <1>2, <1>3 DEF Range
  <2>2. CASE i # Len(r) + 1
    <3>1. i \in 1..Len(r)
      BY <1>1, <2>2
    <3> QED BY <1>1, <1>2, <2>1, <3>1 DEF Range
  <2> QED BY <1>1, <2>1, <2>2
<1>4. ASSUME NEW y \in Range(r) PROVE y \in Range(t)
  <2>1. PICK i \in 1..Len(r) : r[i] = y
    BY <1>2, <1>4 DEF Range
  <2>2. i \in 1..Len(t) /\ t[i] = y
    BY <1>1, <2>1
  <2> QED BY <1>2, <2>2 DEF Range
<1>5. x \in Range(t)
  <2>1. Len(r) + 1 \in 1..Len(t)
    BY <1>1
  <2> QED BY <1>1, <1>2, <2>1 DEF Range
<1>6. Range(t) = Range(r) \cup {x}
  BY <1>3, <1>4, <1>5
<1> QED BY <1>1, <1>6 DEF t

-----------------------------------------------------------------------------
(* The shape of the answers.                                               *)

\* Reading an answer: an index leads into a file, its end leads out of it.
LEMMA ShapedTail ==
    ASSUME NEW r \in Seq(Names \cup {"done", "end"}), NEW mid \in BOOLEAN, Shaped(r, mid), r # <<>>
    PROVE  /\ mid => Head(r) = "end" /\ Shaped(Tail(r), FALSE)
           /\ ~mid => Head(r) # "end" /\ Shaped(Tail(r), Head(r) \in Names)
<1> DEFINE t == Tail(r)
<1>1. /\ t \in Seq(Names \cup {"done", "end"}) /\ Len(t) = Len(r) - 1 /\ Len(r) \in Nat \ {0}
      /\ \A i \in 1..Len(t) : t[i] = r[i + 1]
      /\ Head(r) = r[1] /\ Head(r) \in Names \cup {"done", "end"}
  BY RangeOfTail
<1> HIDE DEF t
<1>2. 1 \in 1..Len(r)
  BY <1>1
<1>3. r[1] = "end" <=> mid
  BY <1>2 DEF Shaped
<1>4. ASSUME NEW i \in 1..Len(r), i # 1 PROVE r[i] = "end" <=> r[i - 1] \in Names
  BY <1>4 DEF Shaped
<1>5. "end" \notin Names
  BY ConstantsOK
<1>6. ASSUME NEW i \in 1..Len(t)
      PROVE  t[i] = "end" <=> (IF i = 1 THEN Head(r) \in Names ELSE t[i - 1] \in Names)
  <2>1. i + 1 \in 1..Len(r) /\ i + 1 # 1 /\ (i + 1) - 1 = i /\ t[i] = r[i + 1]
    BY <1>1
  <2>2. t[i] = "end" <=> r[i] \in Names
    BY <1>4, <2>1
  <2>3. CASE i = 1
    BY <1>1, <2>2, <2>3
  <2>4. CASE i # 1
    <3>1. i - 1 \in 1..Len(t) /\ (i - 1) + 1 = i
      BY <1>1, <2>4
    <3>2. t[i - 1] = r[i]
      BY <1>1, <3>1
    <3> QED BY <2>2, <2>4, <3>2
  <2> QED BY <2>3, <2>4
<1>7. ASSUME NEW i \in 1..Len(t), t[i] \in Names PROVE i < Len(t)
  <2>1. i + 1 \in 1..Len(r) /\ t[i] = r[i + 1]
    BY <1>1
  <2>2. i + 1 < Len(r)
    BY <1>7, <2>1 DEF Shaped
  <2> QED BY <1>1, <2>2
<1>8. Head(r) \in Names => t # <<>>
  <2>1. Head(r) \in Names => 1 < Len(r)
    BY <1>1, <1>2 DEF Shaped
  <2>2. Len(<<>>) = 0
    OBVIOUS
  <2> QED BY <1>1, <2>1, <2>2
<1>9. Shaped(t, Head(r) \in Names)
  BY <1>6, <1>7, <1>8 DEF Shaped
<1>10. mid => Head(r) = "end" /\ ~(Head(r) \in Names)
  BY <1>1, <1>3, <1>5
<1>11. mid => Shaped(t, FALSE)
  <2>1. ASSUME mid PROVE (Head(r) \in Names) = FALSE
    BY <1>10, <2>1
  <2> QED BY <1>9, <2>1
<1> QED BY <1>1, <1>3, <1>9, <1>10, <1>11 DEF t

\* An answer is added as a whole.
LEMMA ShapedAppend ==
    ASSUME NEW r \in Seq(Names \cup {"done", "end"}), NEW mid \in BOOLEAN, Shaped(r, mid)
    PROVE  /\ Shaped(Append(r, "done"), mid)
           /\ \A n \in Names : Shaped(Append(Append(r, n), "end"), mid)
<1> DEFINE M == Names \cup {"done", "end"}
<1>0. "end" \notin Names /\ "done" \notin Names /\ "end" # "done"
  BY ConstantsOK
<1>a. ASSUME NEW i \in 1..Len(r), i # 1 PROVE i - 1 \in 1..Len(r) /\ (r[i] = "end" <=> r[i - 1] \in Names)
  <2>1. Len(r) \in Nat
    OBVIOUS
  <2>2. i - 1 \in 1..Len(r)
    BY <1>a, <2>1
  <2> QED BY <1>a, <2>2 DEF Shaped
<1>b. \A i \in 1..Len(r) : i = 1 => (r[i] = "end" <=> mid)
  BY DEF Shaped
<1>c. \A i \in 1..Len(r) : r[i] \in Names => i < Len(r)
  BY DEF Shaped
<1>d. Len(r) = 0 => ~mid
  BY DEF Shaped
<1>1. Shaped(Append(r, "done"), mid)
  <2> DEFINE t == Append(r, "done")
  <2>1. /\ t \in Seq(M) /\ Len(t) = Len(r) + 1 /\ Len(r) \in Nat
        /\ \A i \in 1..Len(r) : t[i] = r[i]
        /\ t[Len(r) + 1] = "done" /\ t # <<>>
    BY RangeOfAppend
  <2> HIDE DEF t
  <2>2. ASSUME NEW i \in 1..Len(t)
        PROVE  /\ t[i] = "end" <=> (IF i = 1 THEN mid ELSE t[i - 1] \in Names)
               /\ t[i] \in Names => i < Len(t)
    <3>1. CASE i = Len(r) + 1
      <4>1. CASE i = 1
        BY <1>0, <1>d, <2>1, <3>1, <4>1
      <4>2. CASE i # 1
        <5>1. i - 1 \in 1..Len(r) /\ i - 1 = Len(r)
          BY <2>1, <3>1, <4>2
        <5>2. t[i - 1] \notin Names
          BY <1>c, <2>1, <5>1
        <5> QED BY <1>0, <2>1, <3>1, <4>2, <5>2
      <4> QED BY <4>1, <4>2
    <3>2. CASE i # Len(r) + 1
      <4>1. i \in 1..Len(r) /\ t[i] = r[i] /\ i < Len(t)
        BY <2>1, <3>2
      <4>2. CASE i = 1
        BY <1>b, <4>1, <4>2
      <4>3. CASE i # 1
        BY <1>a, <2>1, <4>1, <4>3
      <4> QED BY <4>1, <4>2, <4>3
    <3> QED BY <3>1, <3>2
  <2> QED BY <2>1, <2>2 DEF Shaped, t
<1>2. ASSUME NEW n \in Names PROVE Shaped(Append(Append(r, n), "end"), mid)
  <2> DEFINE u == Append(r, n)
             t == Append(u, "end")
  <2>1. /\ u \in Seq(M) /\ Len(u) = Len(r) + 1 /\ Len(r) \in Nat
        /\ \A i \in 1..Len(r) : u[i] = r[i]
        /\ u[Len(r) + 1] = n
    BY RangeOfAppend
  <2>2. /\ t \in Seq(M) /\ Len(t) = Len(r) + 2
        /\ \A i \in 1..(Len(r) + 1) : t[i] = u[i]
        /\ t[Len(r) + 2] = "end" /\ t # <<>>
    <3> HIDE DEF u
    <3>1. "end" \in M
      OBVIOUS
    <3>2. /\ t \in Seq(M) /\ Len(t) = Len(u) + 1
          /\ \A i \in 1..Len(u) : t[i] = u[i]
          /\ t[Len(u) + 1] = "end"
      BY <2>1, <3>1, RangeOfAppend
    <3>3. Len(u) + 1 = Len(r) + 2 /\ Len(<<>>) = 0
      BY <2>1
    <3> HIDE DEF t
    <3> QED BY <2>1, <3>2, <3>3
  <2> HIDE DEF u, t
  <2>3. /\ \A i \in 1..Len(r) : t[i] = r[i]
        /\ t[Len(r) + 1] = n
    BY <2>1, <2>2
  <2>4. ASSUME NEW i \in 1..Len(t)
        PROVE  /\ t[i] = "end" <=> (IF i = 1 THEN mid ELSE t[i - 1] \in Names)
               /\ t[i] \in Names => i < Len(t)
    <3>1. CASE i = Len(r) + 2
      <4>1. i # 1 /\ i - 1 = Len(r) + 1
        BY <2>1, <3>1
      <4> QED BY <1>0, <2>2, <2>3, <3>1, <4>1
    <3>2. CASE i = Len(r) + 1
      <4>0. t[i] # "end" /\ i < Len(t)
        BY <1>0, <2>1, <2>2, <2>3, <3>2
      <4>1. CASE i = 1
        BY <1>d, <2>1, <3>2, <4>0, <4>1
      <4>2. CASE i # 1
        <5>1. i - 1 \in 1..Len(r) /\ i - 1 = Len(r)
          BY <2>1, <3>2, <4>2
        <5>2. t[i - 1] \notin Names
          BY <1>c, <2>1, <2>3, <5>1
        <5> QED BY <4>0, <4>2, <5>2
      <4> QED BY <4>1, <4>2
    <3>3. CASE i # Len(r) + 1 /\ i # Len(r) + 2
      <4>1. i \in 1..Len(r) /\ i < Len(t)
        BY <2>1, <2>2, <3>3
      <4>a. t[i] = r[i]
        BY <2>3, <4>1
      <4>2. CASE i = 1
        BY <1>b, <4>1, <4>a, <4>2
      <4>3. CASE i # 1
        BY <1>a, <2>3, <4>1, <4>a, <4>3
      <4> QED BY <4>2, <4>3
    <3> QED BY <3>1, <3>2, <3>3
  <2> QED BY <2>2, <2>4 DEF Shaped, t, u
<1> QED BY <1>1, <1>2

\* NDX_DONE stays last when a message is taken, or NDX_DONE is added, or when
\* there was none.
LEMMA DoneLastKept ==
    ASSUME NEW S, NEW r \in Seq(S), DoneLast(r)
    PROVE  /\ r # <<>> => DoneLast(Tail(r))
           /\ r # <<>> /\ Head(r) = "done" => Range(r) \subseteq {"done"}
           /\ \A x \in S : x = "done" \/ "done" \notin Range(r) => DoneLast(Append(r, x))
<1>1. ASSUME r # <<>> PROVE DoneLast(Tail(r))
  <2> DEFINE t == Tail(r)
  <2>1. /\ Len(t) = Len(r) - 1 /\ Len(r) \in Nat \ {0}
        /\ \A i \in 1..Len(t) : t[i] = r[i + 1]
    BY <1>1, RangeOfTail
  <2> HIDE DEF t
  <2>2. ASSUME NEW i \in 1..Len(t), NEW j \in 1..Len(t), i < j, t[i] = "done" PROVE t[j] = "done"
    <3>1. i + 1 \in 1..Len(r) /\ j + 1 \in 1..Len(r) /\ i + 1 < j + 1
      BY <2>1, <2>2
    <3> QED BY <2>1, <2>2, <3>1 DEF DoneLast
  <2> QED BY <2>2 DEF DoneLast, t
<1>2. ASSUME r # <<>>, Head(r) = "done" PROVE Range(r) \subseteq {"done"}
  <2>1. Len(r) \in Nat \ {0} /\ Head(r) = r[1] /\ 1 \in 1..Len(r)
    BY <1>2, RangeOfTail
  <2>2. ASSUME NEW x \in Range(r) PROVE x = "done"
    <3>1. PICK i \in 1..Len(r) : r[i] = x
      BY <2>2, RangeAt
    <3>2. i = 1 \/ 1 < i
      BY <2>1
    <3> QED BY <1>2, <2>1, <3>1, <3>2 DEF DoneLast
  <2> QED BY <2>2
<1>3. ASSUME NEW x \in S, x = "done" \/ "done" \notin Range(r) PROVE DoneLast(Append(r, x))
  <2> DEFINE t == Append(r, x)
  <2>1. /\ Len(t) = Len(r) + 1 /\ Len(r) \in Nat
        /\ \A i \in 1..Len(r) : t[i] = r[i]
        /\ t[Len(r) + 1] = x
    BY RangeOfAppend
  <2> HIDE DEF t
  <2>2. ASSUME NEW i \in 1..Len(t), NEW j \in 1..Len(t), i < j, t[i] = "done" PROVE t[j] = "done"
    <3>1. i \in 1..Len(r) /\ (j \in 1..Len(r) \/ j = Len(r) + 1)
      BY <2>1, <2>2
    <3>2. r[i] = "done" /\ "done" \in Range(r)
      BY <2>1, <2>2, <3>1, RangeAt
    <3> QED BY <1>3, <2>1, <2>2, <3>1, <3>2 DEF DoneLast
  <2> QED BY <2>2 DEF DoneLast, t
<1> QED BY <1>1, <1>2, <1>3

-----------------------------------------------------------------------------
(* The inductive invariant: outside the transfer.                          *)

LEMMA InitIndInv == Init => IndInv
<1> SUFFICES ASSUME Init PROVE IndInv
  OBVIOUS
<1>1. /\ NoGen \in [pc : {"idle", "acquire", "write", "done1", "done2", "ended"}, next : Nat \ {0}]
      /\ NoRecv \in [pc : {"idle", "loop", "read", "data", "rename", "release", "ended"},
                     cur : Names \cup {"none"}, phase : {0, 1}]
      /\ NoGen.pc = "idle" /\ NoRecv.pc = "idle"
  BY DEF NoGen, NoRecv
<1>2. <<>> \in Seq(Names) /\ <<>> \in Seq(Errors) /\ <<>> \in Seq(Names \cup {"done"})
      /\ <<>> \in Seq(Names \cup {"done", "end"})
  OBVIOUS
<1>3. /\ 1 \in 1..(Mirrors + 1) /\ 0 \in 0..(MaxRetries + 1) /\ 0 \in 0..MaxOutstanding /\ 0 \in 0..MaxFaults
      /\ 1 <= Mirrors /\ 0 <= MaxRetries
  BY ConstantsOK
<1>4. tree \in [Names -> Contents] /\ system \in BOOLEAN /\ ctxDone \in BOOLEAN
  BY ConstantsOK DEF Init
<1>5. TypeOK
  BY <1>1, <1>2, <1>3, <1>4 DEF Init, TypeOK, Errors
<1>6. LoopOK /\ WorkersOK /\ StreamOK /\ NoneLost /\ EndOK
  BY <1>1, <1>3 DEF Init, LoopOK, WorkersOK, StreamOK, NoneLost, EndOK
<1> QED BY <1>5, <1>6 DEF IndInv

\* Outside the transfer, and short of its end, nothing is owed.
LEMMA QuietKeeps ==
    ASSUME TypeOK', LoopOK', pc' # "transfer", EndOK',
           pc' = "list" => errs' = <<>> /\ req' = <<>> /\ resp' = <<>>,
           pc' = "system" => Range(files') \subseteq Range(Listing[mirror']),
           gen'.pc \in {"idle", "ended"}, recv'.pc \in {"idle", "ended"}
    PROVE  IndInv'
BY DEF IndInv, WorkersOK, StreamOK, NoneLost

LEMMA NextMirrorKeeps == IndInv /\ NextMirror => IndInv'
<1> SUFFICES ASSUME IndInv, NextMirror PROVE IndInv'
  OBVIOUS
<1>0. TypeOK /\ LoopOK /\ WorkersOK /\ EndOK
  BY DEF IndInv
<1>1. pc = "mirrors" /\ UNCHANGED <<disk, files, workers, net, world>>
  BY DEF NextMirror
<1>2. \/ pc' = "done" /\ result' = "ctx" /\ err' = "ctx" /\ mirror' = mirror /\ attempt' = attempt
      \/ mirror > Mirrors /\ pc' = "done" /\ result' = err /\ err' = err /\ mirror' = mirror /\ attempt' = attempt
      \/ ~(mirror > Mirrors) /\ pc' = "attempts" /\ attempt' = 1 /\ mirror' = mirror /\ err' = err /\ result' = result
  BY Zenon DEF NextMirror, Return
<1>3. mirror > Mirrors => err # "nil"
  BY <1>0, <1>1, ConstantsOK DEF LoopOK, TypeOK
<1>4. /\ err' \in Errors /\ err \in Errors /\ result' \in Errors \cup {"none"} /\ mirror' \in 1..(Mirrors + 1)
      /\ attempt' \in 0..(MaxRetries + 1) /\ pc' \in {"done", "attempts"}
      /\ (pc' = "attempts" => attempt' = 1 /\ mirror' <= Mirrors /\ result' = "none")
      /\ (pc' = "done" => result' # "none" /\ result' # "nil")
  BY <1>0, <1>1, <1>2, <1>3, ConstantsOK, SMTT(30) DEF TypeOK, Errors, LoopOK
<1>5. TypeOK'
  BY <1>0, <1>1, <1>4 DEF TypeOK, disk, workers, net, world
<1>6. LoopOK'
  BY <1>0, <1>4 DEF LoopOK
<1>7. EndOK'
  BY <1>4 DEF EndOK
<1>8. gen'.pc \in {"idle", "ended"} /\ recv'.pc \in {"idle", "ended"}
  BY <1>0, <1>1 DEF WorkersOK, workers
<1> QED BY <1>4, <1>5, <1>6, <1>7, <1>8, QuietKeeps

LEMMA NextAttemptKeeps == IndInv /\ NextAttempt => IndInv'
<1> SUFFICES ASSUME IndInv, NextAttempt PROVE IndInv'
  OBVIOUS
<1>0. TypeOK /\ LoopOK /\ WorkersOK /\ EndOK
  BY DEF IndInv
<1>1. pc = "attempts" /\ UNCHANGED <<disk, loop, files, workers, net, world>>
  BY DEF NextAttempt
<1>2. \/ pc' = "mirror_failed" /\ err' = "ctx"
      \/ attempt > MaxRetries /\ pc' = "mirror_failed" /\ err' = err
      \/ ~(attempt > MaxRetries) /\ pc' = "native" /\ err' = err
  BY Zenon DEF NextAttempt
<1>3. /\ err' \in Errors /\ pc' \in {"mirror_failed", "native"}
      /\ (pc' = "native" => attempt <= MaxRetries)
      /\ (pc' = "mirror_failed" => err' # "nil")
  BY <1>0, <1>1, <1>2, ConstantsOK DEF TypeOK, Errors, LoopOK
<1>4. mirror' = mirror /\ attempt' = attempt /\ result' = result /\ result = "none" /\ mirror <= Mirrors
  BY <1>0, <1>1 DEF loop, LoopOK
<1>5. TypeOK'
  BY <1>0, <1>1, <1>3, <1>4 DEF TypeOK, disk, workers, net, world
<1>6. LoopOK'
  BY <1>3, <1>4 DEF LoopOK
<1>7. EndOK'
  BY <1>3, <1>4 DEF EndOK
<1>8. gen'.pc \in {"idle", "ended"} /\ recv'.pc \in {"idle", "ended"}
  BY <1>0, <1>1 DEF WorkersOK, workers
<1> QED BY <1>3, <1>5, <1>6, <1>7, <1>8, QuietKeeps

LEMMA MirrorFailedKeeps == IndInv /\ MirrorFailed => IndInv'
<1> SUFFICES ASSUME IndInv, MirrorFailed PROVE IndInv'
  OBVIOUS
<1>0. TypeOK /\ LoopOK /\ WorkersOK /\ EndOK
  BY DEF IndInv
<1>1. pc = "mirror_failed" /\ UNCHANGED <<disk, files, workers, net, world>>
  BY DEF MirrorFailed
<1>2. \/ pc' = "done" /\ result' = err /\ err' = err /\ mirror' = mirror /\ attempt' = attempt
      \/ pc' = "mirrors" /\ mirror' = mirror + 1 /\ attempt' = attempt /\ err' = err /\ result' = result
  BY Zenon DEF MirrorFailed, Return
<1>3. err \in Errors /\ err # "nil" /\ mirror <= Mirrors /\ result = "none" /\ Mirrors \in Nat
  BY <1>0, <1>1, ConstantsOK DEF TypeOK, LoopOK
<1>4. /\ err' = err /\ mirror' \in 1..(Mirrors + 1) /\ attempt' = attempt
      /\ pc' \in {"done", "mirrors"} /\ (pc' = "done" => result' = err) /\ (pc' = "mirrors" => result' = "none")
  BY <1>0, <1>2, <1>3 DEF TypeOK
<1>5. TypeOK'
  <2>1. result' \in Errors \cup {"none"}
    BY <1>3, <1>4
  <2> QED BY <1>0, <1>1, <1>4, <2>1 DEF TypeOK, disk, workers, net, world
<1>6. LoopOK'
  BY <1>3, <1>4 DEF LoopOK, Errors
<1>7. EndOK'
  BY <1>3, <1>4 DEF EndOK
<1>8. gen'.pc \in {"idle", "ended"} /\ recv'.pc \in {"idle", "ended"}
  BY <1>0, <1>1 DEF WorkersOK, workers
<1> QED BY <1>4, <1>5, <1>6, <1>7, <1>8, QuietKeeps

\* An attempt that failed is tried again, or its mirror is given up.
LEMMA AttemptFailedMoves ==
    ASSUME TypeOK, LoopOK, pc \in {"native_failed", "system"},
           NEW e \in Errors, e # "nil", AttemptFailed(e)
    PROVE  /\ err' = e /\ mirror' = mirror /\ result' = "none" /\ attempt' \in 0..(MaxRetries + 1)
           /\ pc' \in {"attempts", "mirror_failed"} /\ LoopOK'
<1>1. /\ err' = e /\ mirror' = mirror /\ result' = result
      /\ \/ pc' = "attempts" /\ attempt' = attempt + 1
         \/ pc' = "mirror_failed" /\ attempt' = attempt
  BY DEF AttemptFailed
<1>2. result = "none" /\ mirror <= Mirrors /\ attempt <= MaxRetries
  BY DEF LoopOK
<1>3. attempt' \in 0..(MaxRetries + 1)
  BY <1>1, <1>2, ConstantsOK DEF TypeOK
<1> QED BY <1>1, <1>2, <1>3 DEF LoopOK, Errors

LEMMA NativeFailedKeeps == IndInv /\ NativeFailed => IndInv'
<1> SUFFICES ASSUME IndInv, NativeFailed PROVE IndInv'
  OBVIOUS
<1>0. TypeOK /\ LoopOK /\ WorkersOK /\ EndOK
  BY DEF IndInv
<1>1. pc = "native_failed" /\ UNCHANGED <<disk, workers, net, ctxDone, system, faults>>
  BY DEF NativeFailed
<1>3. err \in Errors /\ err # "nil" /\ result = "none" /\ mirror \in 1..Mirrors /\ attempt <= MaxRetries
  BY <1>0, <1>1, ConstantsOK DEF TypeOK, LoopOK
<1>8. gen'.pc \in {"idle", "ended"} /\ recv'.pc \in {"idle", "ended"}
  BY <1>0, <1>1 DEF WorkersOK, workers
<1>4. ASSUME NEW e \in Errors, e # "nil", AttemptFailed(e), UNCHANGED <<files, skipped, unseen>> PROVE IndInv'
  <2>1. /\ err' = e /\ mirror' = mirror /\ result' = "none" /\ attempt' \in 0..(MaxRetries + 1)
        /\ pc' \in {"attempts", "mirror_failed"} /\ LoopOK'
    BY <1>0, <1>1, <1>4, AttemptFailedMoves
  <2>2. TypeOK'
    BY <1>0, <1>1, <1>4, <2>1 DEF TypeOK, disk, workers, net
  <2>3. EndOK'
    BY <2>1 DEF EndOK
  <2> QED BY <1>8, <2>1, <2>2, <2>3, QuietKeeps
<1>5. CASE pc' = "system" /\ files' = Listing[mirror] /\ skipped' = {} /\ unseen' = {} /\ UNCHANGED <<loop, err>>
  <2>1. mirror' = mirror /\ attempt' = attempt /\ result' = result /\ err' = err
    BY <1>5 DEF loop
  <2>2. files' \in Seq(Names) /\ Range(files') \subseteq Range(Listing[mirror'])
    BY <1>3, <1>5, <2>1, ConstantsOK
  <2>3. TypeOK'
    BY <1>0, <1>1, <1>5, <2>1, <2>2 DEF TypeOK, disk, workers, net
  <2>4. LoopOK'
    BY <1>3, <1>5, <2>1 DEF LoopOK
  <2>5. EndOK'
    BY <1>3, <1>5, <2>1 DEF EndOK
  <2> QED BY <1>5, <1>8, <2>2, <2>3, <2>4, <2>5, QuietKeeps
<1>6. "other" \in Errors /\ "other" # "nil"
  BY DEF Errors
<1> QED BY <1>3, <1>4, <1>5, <1>6 DEF NativeFailed

\* What the rsync binary does to the tree and to temporary files.
SystemMoves ==
    \/ \E n \in Extraneous \cup {k \in Range(files) : tree[k] = Dir} :
          tree' = [tree EXCEPT ![n] = None] /\ UNCHANGED tmps
    \/ \E n \in {k \in Range(files) : tree[k] \notin {mirror, Dir}} :
          tree' = [tree EXCEPT ![n] = mirror] /\ UNCHANGED tmps
    \/ \E n \in tmps : tmps' = tmps \ {n} /\ UNCHANGED tree

\* A run of the rsync binary goes on, succeeds or fails.
LEMMA SystemSyncCases ==
    ASSUME SystemSync
    PROVE  \/ SystemMoves /\ UNCHANGED <<pc, err, loop>>
           \/ /\ Extraneous = {} /\ tmps = {} /\ \A n \in Range(files) : tree[n] = mirror
              /\ Return("nil") /\ UNCHANGED <<disk, mirror, attempt>>
           \/ /\ tmps' = tmps \/ \E n \in Range(files) : tmps' = tmps \cup {n}
              /\ AttemptFailed("other") /\ tree' = tree
BY Zenon DEF SystemSync, SystemMoves

LEMMA SystemSyncKeeps == IndInv /\ SystemSync => IndInv'
<1> SUFFICES ASSUME IndInv, SystemSync PROVE IndInv'
  OBVIOUS
<1>0. TypeOK /\ LoopOK /\ WorkersOK /\ EndOK
  BY DEF IndInv
<1>1. pc = "system" /\ UNCHANGED <<files, workers, net, world>>
  BY DEF SystemSync
<1>2. /\ mirror \in Contents /\ None \in Contents /\ files \in Seq(Names) /\ Range(files) \subseteq Names
      /\ Range(files) \subseteq Range(Listing[mirror]) /\ tmps \subseteq Names /\ result = "none"
  <2>1. files \in Seq(Names)
    BY <1>0 DEF TypeOK
  <2>2. Range(files) \subseteq Names
    BY <2>1, RangeAt
  <2> QED BY <1>0, <1>1, <2>1, <2>2, ConstantsOK DEF TypeOK, LoopOK, WorkersOK, Contents, None
<1>8. gen'.pc \in {"idle", "ended"} /\ recv'.pc \in {"idle", "ended"}
  BY <1>0, <1>1 DEF WorkersOK, workers
<1>3. CASE SystemMoves /\ UNCHANGED <<pc, err, loop>>
  <2>1. tree' \in [Names -> Contents] /\ tmps' \subseteq Names
    <3>1. tree \in [Names -> Contents] /\ Extraneous \subseteq Names
      BY <1>0 DEF TypeOK, Extraneous
    <3>2. CASE \E k \in Extraneous \cup {j \in Range(files) : tree[j] = Dir} :
                 tree' = [tree EXCEPT ![k] = None] /\ UNCHANGED tmps
      <4>1. PICK k \in Extraneous \cup {j \in Range(files) : tree[j] = Dir} :
                 tree' = [tree EXCEPT ![k] = None] /\ UNCHANGED tmps
        BY <3>2
      <4> QED BY <1>2, <3>1, <4>1
    <3>3. CASE \E k \in {j \in Range(files) : tree[j] \notin {mirror, Dir}} :
                 tree' = [tree EXCEPT ![k] = mirror] /\ UNCHANGED tmps
      <4>1. PICK k \in {j \in Range(files) : tree[j] \notin {mirror, Dir}} :
                 tree' = [tree EXCEPT ![k] = mirror] /\ UNCHANGED tmps
        BY <3>3
      <4> QED BY <1>2, <3>1, <4>1
    <3>4. CASE \E k \in tmps : tmps' = tmps \ {k} /\ UNCHANGED tree
      BY <1>2, <3>1, <3>4
    <3> QED BY Zenon, <1>3, <3>2, <3>3, <3>4 DEF SystemMoves
  <2>2. /\ pc' = pc /\ err' = err /\ mirror' = mirror /\ attempt' = attempt /\ result' = result
        /\ files' = files
    BY <1>1, <1>3 DEF loop
  <2>3. TypeOK'
    BY <1>0, <1>1, <2>1, <2>2 DEF TypeOK, workers, net, world
  <2>4. LoopOK'
    BY <1>0, <2>2 DEF LoopOK
  <2>5. EndOK'
    BY <1>1, <1>2, <2>2 DEF EndOK
  <2> QED BY <1>1, <1>2, <1>8, <2>2, <2>3, <2>4, <2>5, QuietKeeps
<1>4. CASE /\ Extraneous = {} /\ tmps = {} /\ \A n \in Range(files) : tree[n] = mirror
           /\ Return("nil") /\ UNCHANGED <<disk, mirror, attempt>>
  <2>1. pc' = "done" /\ result' = "nil" /\ err' = "nil" /\ mirror' = mirror /\ attempt' = attempt
    BY <1>4 DEF Return
  <2>2. TypeOK'
    BY <1>0, <1>1, <1>4, <2>1 DEF TypeOK, Errors, disk, workers, net, world
  <2>3. LoopOK'
    BY <2>1 DEF LoopOK
  <2>4. EndOK'
    <3>1. tree' = tree /\ tmps' = tmps /\ files' = files /\ skipped' = skipped /\ unseen' = unseen
      BY <1>1, <1>4 DEF disk, world
    <3>2. Extraneous' = {}
      BY <1>4, <3>1 DEF Extraneous
    <3> QED BY <1>4, <2>1, <3>1, <3>2 DEF EndOK
  <2> QED BY <1>8, <2>1, <2>2, <2>3, <2>4, QuietKeeps
<1>5. CASE /\ tmps' = tmps \/ \E n \in Range(files) : tmps' = tmps \cup {n}
           /\ AttemptFailed("other") /\ tree' = tree
  <2>1. /\ err' = "other" /\ mirror' = mirror /\ result' = "none" /\ attempt' \in 0..(MaxRetries + 1)
        /\ pc' \in {"attempts", "mirror_failed"} /\ LoopOK'
    BY <1>0, <1>1, <1>5, AttemptFailedMoves DEF Errors
  <2>2. tmps' \subseteq Names
    BY <1>2, <1>5
  <2>3. TypeOK'
    BY <1>0, <1>1, <1>5, <2>1, <2>2 DEF TypeOK, Errors, workers, net, world
  <2>4. EndOK'
    BY <2>1 DEF EndOK
  <2> QED BY <1>8, <2>1, <2>3, <2>4, QuietKeeps
<1> QED BY <1>3, <1>4, <1>5, SystemSyncCases

\* What is left of the goroutines and of the connection when a call ends.
LEMMA NoWorkersTyped ==
    ASSUME NoWorkers
    PROVE  /\ slots' \in 0..MaxOutstanding
           /\ gen' \in [pc : {"idle", "acquire", "write", "done1", "done2", "ended"}, next : Nat \ {0}]
           /\ recv' \in [pc : {"idle", "loop", "read", "data", "rename", "release", "ended"},
                         cur : Names \cup {"none"}, phase : {0, 1}]
           /\ errs' \in Seq(Errors) /\ req' \in Seq(Names \cup {"done"})
           /\ resp' \in Seq(Names \cup {"done", "end"})
           /\ gen'.pc = "idle" /\ recv'.pc = "idle"
           /\ errs' = <<>> /\ req' = <<>> /\ resp' = <<>>
<1>1. 0 \in 0..MaxOutstanding
  BY ConstantsOK
<1> QED BY <1>1 DEF NoWorkers, NoGen, NoRecv

\* What Connect and Crash begin with.
LEMMA NoTransferTyped ==
    ASSUME NoTransfer
    PROVE  /\ NoWorkers /\ files' \in Seq(Names) /\ skipped' \subseteq Names /\ unseen' \subseteq Names
BY DEF NoTransfer

LEMMA ConnectKeeps == IndInv /\ Connect => IndInv'
<1> SUFFICES ASSUME IndInv, Connect PROVE IndInv'
  OBVIOUS
<1>0. TypeOK /\ LoopOK
  BY DEF IndInv
<1>1. pc = "native" /\ NoTransfer /\ UNCHANGED <<disk, loop, ctxDone, system>>
  BY DEF Connect
<1>2. \/ pc' = "list" /\ conn' = "open" /\ err' = err /\ faults' = faults
      \/ pc' = "native_failed" /\ err' = "other" /\ conn' = conn /\ faults' = faults
      \/ Fault /\ (\E e \in {"conn", "other"} : err' = e) /\ pc' = "native_failed" /\ conn' = conn
  BY Zenon DEF Connect
<1>3. /\ pc' \in {"list", "native_failed"} /\ conn' \in {"open", "reset", "closed"} /\ err' \in Errors
      /\ faults' \in 0..MaxFaults /\ (pc' = "native_failed" => err' # "nil")
  BY <1>0, <1>2, ConstantsOK DEF TypeOK, Errors, Fault
<1>4. mirror' = mirror /\ attempt' = attempt /\ result' = result /\ result = "none"
      /\ mirror <= Mirrors /\ attempt <= MaxRetries
  BY <1>0, <1>1 DEF loop, LoopOK
<1>5. TypeOK'
  BY <1>0, <1>1, <1>3, <1>4, NoTransferTyped, NoWorkersTyped DEF TypeOK, disk
<1>6. LoopOK'
  BY <1>3, <1>4 DEF LoopOK
<1>7. EndOK'
  BY <1>3, <1>4 DEF EndOK
<1> QED BY <1>1, <1>3, <1>5, <1>6, <1>7, NoTransferTyped, NoWorkersTyped, QuietKeeps

LEMMA CrashKeeps == IndInv /\ Crash => IndInv'
<1> SUFFICES ASSUME IndInv, Crash PROVE IndInv'
  OBVIOUS
<1>0. TypeOK
  BY DEF IndInv
<1>1. /\ Fault /\ NoTransfer /\ UNCHANGED <<disk, system>>
      /\ pc' = "mirrors" /\ mirror' = 1 /\ attempt' = 0 /\ err' = "nil" /\ result' = "none"
      /\ conn' = "closed" /\ ctxDone' \in BOOLEAN
  BY DEF Crash
<1>2. faults' \in 0..MaxFaults /\ 1 \in 1..(Mirrors + 1) /\ 0 \in 0..(MaxRetries + 1)
  BY <1>0, <1>1, ConstantsOK DEF TypeOK, Fault
<1>5. TypeOK'
  BY <1>0, <1>1, <1>2, NoTransferTyped, NoWorkersTyped DEF TypeOK, disk, Errors
<1>6. LoopOK'
  BY <1>1 DEF LoopOK
<1>7. EndOK'
  BY <1>1 DEF EndOK
<1> QED BY <1>1, <1>5, <1>6, <1>7, NoTransferTyped, NoWorkersTyped, QuietKeeps

LEMMA DeleteKeeps == IndInv /\ DeleteExtraneous => IndInv'
<1> SUFFICES ASSUME IndInv, DeleteExtraneous PROVE IndInv'
  OBVIOUS
<1>0. TypeOK /\ LoopOK /\ WorkersOK /\ EndOK
  BY DEF IndInv
<1>1. pc = "delete" /\ UNCHANGED <<loop, files, workers, net, ctxDone, system, skipped>>
  BY DEF DeleteExtraneous
<1>2. /\ mirror' = mirror /\ attempt' = attempt /\ result' = result /\ files' = files /\ skipped' = skipped
      /\ result = "none" /\ mirror <= Mirrors /\ attempt <= MaxRetries
  BY <1>0, <1>1 DEF loop, LoopOK
<1>3. \A n \in Range(files) \ skipped : tree[n] = mirror
  BY <1>0, <1>1 DEF EndOK
<1>4. None \in Contents /\ Range(files) \subseteq Names
  <2>1. files \in Seq(Names)
    BY <1>0 DEF TypeOK
  <2> QED BY <2>1, RangeAt, ConstantsOK DEF Contents, None
<1>5. /\ pc' \in {"delete", "protocol_done"} /\ tree' \in [Names -> Contents] /\ tmps' \subseteq Names
      /\ err' \in Errors /\ faults' \in 0..MaxFaults /\ unseen' \subseteq Names
      /\ \A n \in Range(files) \ skipped : tree'[n] = mirror
      /\ pc' = "protocol_done" /\ err' = "nil" => Extraneous' \cup tmps' \subseteq unseen'
  <2>1. ASSUME NEW n \in Extraneous \ unseen, tree' = [tree EXCEPT ![n] = None],
               UNCHANGED <<tmps, pc, err, unseen, faults>>
        PROVE  <1>5!:
    BY <1>0, <1>1, <1>3, <1>4, <2>1 DEF TypeOK, Extraneous
  <2>2. ASSUME NEW n \in tmps, tmps' = tmps \ {n}, UNCHANGED <<tree, pc, err, unseen, faults>>
        PROVE  <1>5!:
    BY <1>0, <1>1, <1>3, <2>2 DEF TypeOK
  <2>3. ASSUME Fault, NEW n \in Names, unseen' = unseen \cup {n}, UNCHANGED <<disk, pc, err>>
        PROVE  <1>5!:
    <3>1. faults' \in 0..MaxFaults
      BY <1>0, <2>3, ConstantsOK DEF TypeOK, Fault
    <3> QED BY <1>0, <1>1, <1>3, <2>3, <3>1 DEF TypeOK, disk
  <2>4. ASSUME Fault, NEW e \in {"disk", "other"}, EndProtocol(e), UNCHANGED <<disk, unseen>>
        PROVE  <1>5!:
    <3>1. faults' \in 0..MaxFaults
      BY <1>0, <2>4, ConstantsOK DEF TypeOK, Fault
    <3> QED BY <1>0, <1>3, <2>4, <3>1 DEF TypeOK, EndProtocol, disk, Errors
  <2>5. ASSUME Extraneous \cup tmps \subseteq unseen, EndProtocol("nil"), UNCHANGED <<disk, unseen, faults>>
        PROVE  <1>5!:
    <3>1. Extraneous' = Extraneous
      BY <1>2, <2>5 DEF Extraneous, disk
    <3> QED BY <1>0, <1>3, <2>5, <3>1 DEF TypeOK, EndProtocol, disk, Errors
  <2> QED BY <2>1, <2>2, <2>3, <2>4, <2>5 DEF DeleteExtraneous
<1>6. TypeOK'
  BY <1>0, <1>1, <1>2, <1>5 DEF TypeOK, workers, net
<1>7. LoopOK'
  BY <1>2, <1>5 DEF LoopOK
<1>8. EndOK'
  BY <1>2, <1>3, <1>5 DEF EndOK
<1>9. gen'.pc \in {"idle", "ended"} /\ recv'.pc \in {"idle", "ended"}
  BY <1>0, <1>1 DEF WorkersOK, workers
<1> QED BY <1>5, <1>6, <1>7, <1>8, <1>9, QuietKeeps

LEMMA SyncReturnsKeeps == IndInv /\ SyncReturns => IndInv'
<1> SUFFICES ASSUME IndInv, SyncReturns PROVE IndInv'
  OBVIOUS
<1>0. TypeOK /\ LoopOK /\ WorkersOK /\ EndOK
  BY DEF IndInv
<1>1. pc = "protocol_done" /\ conn' = "closed" /\ UNCHANGED <<disk, files, world>>
  BY DEF SyncReturns
<1>6. /\ slots' \in 0..MaxOutstanding /\ errs' \in Seq(Errors) /\ req' \in Seq(Names \cup {"done"})
      /\ gen' \in [pc : {"idle", "acquire", "write", "done1", "done2", "ended"}, next : Nat \ {0}]
      /\ recv' \in [pc : {"idle", "loop", "read", "data", "rename", "release", "ended"},
                    cur : Names \cup {"none"}, phase : {0, 1}]
      /\ resp' \in Seq(Names \cup {"done", "end"}) /\ gen'.pc = "idle" /\ recv'.pc = "idle"
  <2>1. NoWorkers
    BY DEF SyncReturns
  <2> QED BY <2>1, NoWorkersTyped
<1>2. PICK e \in {"ctx", err} :
          IF e = "nil" THEN Return("nil") /\ UNCHANGED <<mirror, attempt>>
          ELSE pc' = "native_failed" /\ err' = e /\ UNCHANGED loop
  <2>1. (IF ctxDone THEN {"ctx"} ELSE {}) \cup (IF ctxDone /\ conn = "closed" THEN {} ELSE {err}) \subseteq {"ctx", err}
    BY Zenon
  <2> QED BY <2>1, Zenon DEF SyncReturns
<1>3. e \in Errors /\ result = "none" /\ mirror <= Mirrors /\ attempt <= MaxRetries
  BY <1>0, <1>1 DEF TypeOK, LoopOK, Errors
<1>4. CASE e = "nil"
  <2>1. pc' = "done" /\ result' = "nil" /\ err' = "nil" /\ mirror' = mirror /\ attempt' = attempt
    BY <1>2, <1>4 DEF Return
  <2>2. err = "nil"
    BY <1>2, <1>4
  <2>3. TypeOK'
    BY <1>0, <1>1, <1>6, <2>1 DEF TypeOK, disk, world, Errors
  <2>4. LoopOK'
    BY <2>1 DEF LoopOK
  <2>5. EndOK'
    BY <1>0, <1>1, <2>1, <2>2 DEF EndOK, Extraneous, disk, world
  <2> QED BY <1>6, <2>1, <2>3, <2>4, <2>5, QuietKeeps
<1>5. CASE e # "nil"
  <2>1. pc' = "native_failed" /\ result' = "none" /\ err' = e /\ mirror' = mirror /\ attempt' = attempt
    BY <1>2, <1>3, <1>5 DEF loop
  <2>3. TypeOK'
    BY <1>0, <1>1, <1>3, <1>6, <2>1 DEF TypeOK, disk, world, Errors
  <2>4. LoopOK'
    BY <1>3, <1>5, <2>1 DEF LoopOK
  <2>5. EndOK'
    BY <2>1 DEF EndOK
  <2> QED BY <1>6, <2>1, <2>3, <2>4, <2>5, QuietKeeps
<1> QED BY <1>4, <1>5

-----------------------------------------------------------------------------
(* The inductive invariant: into the transfer and out of it.               *)

\* The variables that no step within the transfer touches.
Within == pc = "transfer" /\ UNCHANGED <<pc, err, mirror, attempt, result, files, system>>

LEMMA TransferKeeps ==
    ASSUME IndInv, Within, TypeOK', WorkersOK', StreamOK', NoneLost'
    PROVE  IndInv'
<1>1. result = "none" /\ mirror <= Mirrors /\ attempt <= MaxRetries
  BY DEF IndInv, LoopOK, Within
<1>2. LoopOK' /\ EndOK'
  BY <1>1 DEF LoopOK, EndOK, Within
<1> QED BY <1>2 DEF IndInv

LEMMA ReceiveListKeeps == IndInv /\ ReceiveList => IndInv'
<1> SUFFICES ASSUME IndInv, ReceiveList PROVE IndInv'
  OBVIOUS
<1>0. TypeOK /\ LoopOK /\ WorkersOK /\ EndOK
  BY DEF IndInv
<1>1. pc = "list" /\ UNCHANGED <<disk, loop, slots, errs, net, ctxDone, system, skipped, unseen>>
  BY DEF ReceiveList
<1>2. /\ mirror' = mirror /\ attempt' = attempt /\ result' = result /\ result = "none"
      /\ mirror \in 1..Mirrors /\ attempt <= MaxRetries
      /\ errs' = <<>> /\ req' = <<>> /\ resp' = <<>>
  BY <1>0, <1>1, ConstantsOK DEF loop, net, LoopOK, WorkersOK, TypeOK
<1>3. CASE pc' = "protocol_done" /\ err' \in Errors /\ err' # "nil" /\ UNCHANGED <<files, gen, recv>>
           /\ faults' \in 0..MaxFaults
  <2>1. TypeOK'
    BY <1>0, <1>1, <1>2, <1>3 DEF TypeOK, disk, net
  <2>2. LoopOK'
    BY <1>2, <1>3 DEF LoopOK
  <2>3. EndOK'
    BY <1>2, <1>3 DEF EndOK
  <2>4. gen'.pc \in {"idle", "ended"} /\ recv'.pc \in {"idle", "ended"}
    BY <1>0, <1>1, <1>3 DEF WorkersOK
  <2> QED BY <1>3, <2>1, <2>2, <2>3, <2>4, QuietKeeps
<1>4. CASE /\ files' \in Parts(Listing[mirror])
           /\ pc' = "transfer" /\ UNCHANGED <<err, faults>>
           /\ gen' = [NoGen EXCEPT !.pc = "acquire"] /\ recv' = [NoRecv EXCEPT !.pc = "loop"]
  <2>1. Listing[mirror] \in Seq(Names)
    BY <1>2, ConstantsOK
  <2>2. files' \in Seq(Names) /\ Range(files') \subseteq Range(Listing[mirror])
    BY <1>4, <2>1, PartsAreLists
  <2>3. /\ gen' \in [pc : {"idle", "acquire", "write", "done1", "done2", "ended"}, next : Nat \ {0}]
        /\ recv' \in [pc : {"idle", "loop", "read", "data", "rename", "release", "ended"},
                      cur : Names \cup {"none"}, phase : {0, 1}]
        /\ gen'.pc = "acquire" /\ gen'.next = 1 /\ recv'.pc = "loop" /\ recv'.phase = 0
    BY <1>4 DEF NoGen, NoRecv
  <2>4. TypeOK'
    BY <1>0, <1>1, <1>2, <1>4, <2>2, <2>3 DEF TypeOK, disk, net
  <2>5. LoopOK'
    BY <1>2, <1>4 DEF LoopOK
  <2>6. WorkersOK'
    <3>1. Len(files') \in Nat /\ Len(errs') = 0
      BY <1>2, <2>2
    <3> QED BY <1>2, <1>4, <2>2, <2>3, <3>1 DEF WorkersOK
  <2>7. StreamOK'
    <3>1. Len(req') = 0 /\ Len(resp') = 0 /\ Range(req') = {} /\ Range(resp') = {}
      BY <1>2, RangeOfEmpty
    <3>2. ~Sent'
      BY <2>3, <3>1 DEF Sent
    <3>3. Shaped(resp', FALSE) /\ DoneLast(req') /\ DoneLast(resp')
      BY <3>1 DEF Shaped, DoneLast
    <3>4. (recv.pc = "data")' = FALSE
      BY <2>3
    <3> QED BY <2>3, <3>1, <3>2, <3>3, <3>4 DEF StreamOK
  <2>8. NoneLost'
    <3>1. 1..(gen'.next - 1) = {}
      BY <2>3
    <3> QED BY <3>1 DEF NoneLost
  <2>9. EndOK'
    BY <1>2, <1>4 DEF EndOK
  <2> QED BY <2>4, <2>5, <2>6, <2>7, <2>8, <2>9 DEF IndInv
<1>5. \/ <1>3!1
      \/ <1>4!1
  <2>1. \/ <1>4!1
        \/ EndProtocol(IF conn = "reset" THEN "conn" ELSE "other") /\ UNCHANGED <<files, gen, recv, faults>>
        \/ Fault /\ (\E e \in {"disk", "other"} : EndProtocol(e)) /\ UNCHANGED <<files, gen, recv>>
    BY DEF ReceiveList
  <2>2. CASE EndProtocol(IF conn = "reset" THEN "conn" ELSE "other") /\ UNCHANGED <<files, gen, recv, faults>>
    BY <1>0, <2>2 DEF EndProtocol, Errors, TypeOK
  <2>3. CASE Fault /\ (\E e \in {"disk", "other"} : EndProtocol(e)) /\ UNCHANGED <<files, gen, recv>>
    BY <1>0, <2>3, ConstantsOK, SMTT(30) DEF EndProtocol, Errors, TypeOK, Fault
  <2> QED BY <2>1, <2>2, <2>3
<1> QED BY <1>3, <1>4, <1>5

\* NDX_DONE has arrived, and so has every file.
LEMMA DoneMeansAll ==
    ASSUME IndInv, pc = "transfer", recv.phase = 1
    PROVE  \A n \in Range(files) \ skipped : tree[n] = mirror
<1>1. TypeOK /\ WorkersOK /\ StreamOK /\ NoneLost
  BY DEF IndInv
<1>2. Sent
  BY DEF Sent
<1>3. /\ gen.next = Len(files) + 1 /\ Range(resp) \cup Range(req) \subseteq {"done"}
      /\ recv.pc \notin {"data", "rename"}
  BY <1>1, <1>2 DEF StreamOK
<1>4. \A i \in 1..(gen.next - 1) : Accounted(files[i])
  BY <1>1, <1>2 DEF NoneLost
<1>5. files \in Seq(Names)
  BY <1>1 DEF TypeOK
<1>6. ASSUME NEW n \in Range(files) \ skipped PROVE tree[n] = mirror
  <2>1. n \in Names /\ Len(files) \in Nat
    BY <1>5, RangeAt
  <2>2. PICK i \in 1..Len(files) : files[i] = n
    BY <1>5, RangeAt
  <2>3. Accounted(n)
    <3>1. i \in 1..(gen.next - 1)
      BY <1>3, <2>1
    <3> QED BY <1>4, <2>2, <3>1
  <2>4. n # "done"
    BY <2>1, ConstantsOK
  <2> QED BY <1>3, <2>3, <2>4 DEF Accounted
<1> QED BY <1>6

LEMMA CollectKeeps == IndInv /\ Collect => IndInv'
<1> SUFFICES ASSUME IndInv, Collect PROVE IndInv'
  OBVIOUS
<1>0. TypeOK /\ LoopOK /\ WorkersOK /\ EndOK
  BY DEF IndInv
<1> DEFINE firstErr == IF errs[1] # "nil" THEN errs[1] ELSE errs[2]
<1>1. /\ pc = "transfer" /\ Len(errs) = 2 /\ UNCHANGED <<disk, loop, files, workers, net, world>>
      /\ IF firstErr = "nil" THEN pc' = "delete" /\ UNCHANGED err ELSE EndProtocol(firstErr)
  BY DEF Collect
<1>2. errs[1] \in Errors /\ errs[2] \in Errors
  <2>1. errs \in Seq(Errors) /\ 1 \in 1..Len(errs) /\ 2 \in 1..Len(errs)
    BY <1>0, <1>1 DEF TypeOK
  <2> QED BY <2>1
<1>3. gen.pc = "ended" /\ recv.pc = "ended"
  BY <1>0, <1>1 DEF WorkersOK
<1>4. firstErr = "nil" => recv.phase = 1
  <2>1. recv.phase \in {0, 1}
    BY <1>0 DEF TypeOK
  <2>2. recv.phase = 0 => \E i \in 1..2 : errs[i] # "nil"
    BY <1>0, <1>1, <1>3 DEF WorkersOK
  <2>3. recv.phase = 0 => errs[1] # "nil" \/ errs[2] # "nil"
    BY <2>2
  <2> QED BY <2>1, <2>3
<1>5. /\ pc' \in {"delete", "protocol_done"} /\ err' \in Errors /\ (pc' = "protocol_done" => err' # "nil")
      /\ (pc' = "delete" => recv.phase = 1)
  BY <1>0, <1>1, <1>2, <1>4 DEF EndProtocol, TypeOK
<1> HIDE DEF firstErr
<1>6. /\ mirror' = mirror /\ attempt' = attempt /\ result' = result /\ result = "none"
      /\ mirror <= Mirrors /\ attempt <= MaxRetries
  BY <1>0, <1>1 DEF loop, LoopOK
<1>7. TypeOK'
  BY <1>0, <1>1, <1>5, <1>6 DEF TypeOK, disk, workers, net, world
<1>8. LoopOK'
  BY <1>5, <1>6 DEF LoopOK
<1>9. EndOK'
  <2>1. ASSUME pc' = "delete"
        PROVE  \A n \in Range(files) \ skipped : tree[n] = mirror
    BY <1>1, <1>5, <2>1, DoneMeansAll
  <2>2. files' = files /\ skipped' = skipped /\ tree' = tree
    BY <1>1 DEF disk, world
  <2> QED BY <1>5, <1>6, <2>1, <2>2 DEF EndOK
<1>10. gen'.pc \in {"idle", "ended"} /\ recv'.pc \in {"idle", "ended"}
  BY <1>1, <1>3 DEF workers
<1> QED BY <1>5, <1>7, <1>8, <1>9, <1>10, QuietKeeps

\* The connection, the context and the fault counter do not matter elsewhere.
LEMMA OutsideKeeps ==
    ASSUME IndInv, UNCHANGED <<disk, pc, err, loop, files, workers, req, resp, system, skipped, unseen>>,
           conn' \in {"open", "reset", "closed"}, conn' = "open" => conn = "open",
           ctxDone' \in BOOLEAN, faults' \in 0..MaxFaults
    PROVE  IndInv'
<1>0. TypeOK /\ LoopOK /\ WorkersOK /\ StreamOK /\ NoneLost /\ EndOK
  BY DEF IndInv
<1>1. TypeOK'
  BY <1>0 DEF TypeOK, disk, loop, workers
<1>2. LoopOK' /\ WorkersOK' /\ EndOK'
  BY <1>0 DEF LoopOK, WorkersOK, EndOK, Extraneous, disk, loop, workers
<1>3. Sent' = Sent /\ StreamOK'
  BY <1>0 DEF StreamOK, Sent, Shaped, DoneLast, workers
<1>4. NoneLost'
  BY <1>0, <1>3 DEF NoneLost, Accounted, disk, loop, workers
<1> QED BY <1>1, <1>2, <1>3, <1>4 DEF IndInv

LEMMA CloseOnCancelKeeps == IndInv /\ CloseOnCancel => IndInv'
<1> SUFFICES ASSUME IndInv, CloseOnCancel PROVE IndInv'
  OBVIOUS
<1>1. ctxDone \in BOOLEAN /\ faults \in 0..MaxFaults
  BY DEF IndInv, TypeOK
<1> QED BY <1>1, OutsideKeeps DEF CloseOnCancel, world

LEMMA MirrorResetsKeeps == IndInv /\ MirrorResets => IndInv'
<1> SUFFICES ASSUME IndInv, MirrorResets PROVE IndInv'
  OBVIOUS
<1>1. ctxDone \in BOOLEAN /\ faults' \in 0..MaxFaults
  BY ConstantsOK DEF IndInv, TypeOK, MirrorResets, Fault
<1> QED BY <1>1, OutsideKeeps DEF MirrorResets

LEMMA InterruptKeeps == IndInv /\ Interrupt => IndInv'
<1> SUFFICES ASSUME IndInv, Interrupt PROVE IndInv'
  OBVIOUS
<1>1. conn \in {"open", "reset", "closed"} /\ faults \in 0..MaxFaults
  BY DEF IndInv, TypeOK
<1> QED BY <1>1, OutsideKeeps DEF Interrupt, net

-----------------------------------------------------------------------------
(* The inductive invariant: the generator.                                 *)

\* errChan takes one more result.
LEMMA OneMoreResult ==
    ASSUME NEW s \in Seq(Errors), NEW e \in Errors
    PROVE  /\ Append(s, e) \in Seq(Errors) /\ Len(Append(s, e)) = Len(s) + 1
           /\ (e # "nil" \/ \E i \in 1..Len(s) : s[i] # "nil") =>
                \E i \in 1..Len(Append(s, e)) : Append(s, e)[i] # "nil"
<1> DEFINE t == Append(s, e)
<1>1. /\ t \in Seq(Errors) /\ Len(t) = Len(s) + 1 /\ Len(s) \in Nat
      /\ \A i \in 1..Len(s) : t[i] = s[i]
      /\ t[Len(s) + 1] = e
  BY RangeOfAppend
<1> HIDE DEF t
<1>2. ASSUME e # "nil" PROVE \E i \in 1..Len(t) : t[i] # "nil"
  <2>1. Len(s) + 1 \in 1..Len(t)
    BY <1>1
  <2> QED BY <1>1, <1>2, <2>1
<1>3. ASSUME NEW i \in 1..Len(s), s[i] # "nil" PROVE \E j \in 1..Len(t) : t[j] # "nil"
  <2>1. i \in 1..Len(t) /\ t[i] # "nil"
    BY <1>1, <1>3
  <2> QED BY <2>1
<1> QED BY <1>1, <1>2, <1>3 DEF t

\* The generator runs within the transfer, and no file follows NDX_DONE.
LEMMA GeneratorIn ==
    ASSUME IndInv, gen.pc \in {"acquire", "write", "done1", "done2"}
    PROVE  /\ pc = "transfer" /\ TypeOK /\ WorkersOK /\ StreamOK /\ NoneLost
           /\ gen.pc # "done2" => ~Sent
<1>1. TypeOK /\ WorkersOK /\ StreamOK /\ NoneLost
  BY DEF IndInv
<1>2. pc = "transfer"
  BY <1>1 DEF WorkersOK
<1> QED BY <1>1, <1>2 DEF StreamOK

\* The generator moves without a message.
LEMMA GeneratorMoves ==
    ASSUME IndInv, gen.pc \in {"acquire", "write", "done1", "done2"},
           UNCHANGED <<disk, pc, err, loop, files, recv, net, world>>,
           slots' \in 0..MaxOutstanding,
           gen' \in [pc : {"acquire", "write", "done1", "done2", "ended"}, next : Nat \ {0}],
           \/ gen'.pc # "ended" /\ errs' = errs
           \/ gen'.pc = "ended" /\ \E e \in Errors : errs' = Append(errs, e),
           gen'.next <= Len(files) + 1, gen'.pc = "write" => gen'.next <= Len(files),
           gen'.pc \in {"done1", "done2"} => gen'.next = Len(files) + 1,
           Sent => gen'.pc \in {"done2", "ended"} /\ gen'.next = Len(files) + 1,
           gen'.next = gen.next \/ (conn # "open" /\ ~Sent)
    PROVE  IndInv'
<1>0. pc = "transfer" /\ TypeOK /\ WorkersOK /\ StreamOK /\ NoneLost
  BY GeneratorIn
<1>a. /\ tree' = tree /\ tmps' = tmps /\ pc' = pc /\ err' = err /\ mirror' = mirror /\ attempt' = attempt
      /\ result' = result /\ files' = files /\ recv' = recv /\ conn' = conn /\ req' = req /\ resp' = resp
      /\ ctxDone' = ctxDone /\ system' = system /\ skipped' = skipped /\ unseen' = unseen
      /\ faults' = faults
  BY DEF disk, loop, net, world
<1>1. /\ errs' \in Seq(Errors)
      /\ Len(errs') = Len(errs) + (IF gen'.pc = "ended" THEN 1 ELSE 0)
      /\ (\E i \in 1..Len(errs) : errs[i] # "nil") => \E i \in 1..Len(errs') : errs'[i] # "nil"
  <2>1. errs \in Seq(Errors)
    BY <1>0 DEF TypeOK
  <2>2. CASE gen'.pc # "ended" /\ errs' = errs
    BY <2>1, <2>2
  <2>3. CASE gen'.pc = "ended" /\ \E e \in Errors : errs' = Append(errs, e)
    BY <2>1, <2>3, OneMoreResult
  <2> QED BY <2>2, <2>3
<1>2. TypeOK'
  BY <1>0, <1>a, <1>1 DEF TypeOK
<1>3. WorkersOK'
  <2>1. Len(errs') = (IF gen'.pc = "ended" THEN 1 ELSE 0) + (IF recv'.pc = "ended" THEN 1 ELSE 0)
    BY <1>0, <1>a, <1>1 DEF WorkersOK
  <2> QED BY <1>0, <1>a, <1>1, <2>1 DEF WorkersOK
<1>4. Sent' = Sent
  BY <1>a DEF Sent
<1>5. StreamOK'
  BY <1>0, <1>a, <1>4 DEF StreamOK, Shaped, DoneLast
<1>6. NoneLost'
  BY <1>0, <1>a, <1>4 DEF NoneLost, Accounted
<1> QED BY <1>0, <1>a, <1>2, <1>3, <1>5, <1>6, TransferKeeps DEF Within

LEMMA GenAcquireKeeps == IndInv /\ GenAcquire => IndInv'
<1> SUFFICES ASSUME IndInv, GenAcquire PROVE IndInv'
  OBVIOUS
<1>1. gen.pc = "acquire" /\ UNCHANGED <<disk, pc, err, loop, files, recv, net, world>>
  BY DEF GenAcquire
<1>2. TypeOK /\ WorkersOK /\ pc = "transfer" /\ ~Sent
  BY <1>1, GeneratorIn
<1>3. /\ gen \in [pc : {"idle", "acquire", "write", "done1", "done2", "ended"}, next : Nat \ {0}]
      /\ gen.next <= Len(files) + 1 /\ Len(files) \in Nat /\ slots \in 0..MaxOutstanding /\ MaxOutstanding \in Nat
  BY <1>2, ConstantsOK DEF TypeOK, WorkersOK
<1>4. \/ gen.next > Len(files) /\ gen' = [gen EXCEPT !.pc = "done1"] /\ slots' = slots /\ errs' = errs
      \/ GenEnd("ctx") /\ slots' = slots
      \/ /\ ~(gen.next > Len(files)) /\ slots < MaxOutstanding /\ slots' = slots + 1
         /\ gen' = [gen EXCEPT !.pc = "write"] /\ errs' = errs
  BY Zenon DEF GenAcquire
<1>5. CASE gen.next > Len(files) /\ gen' = [gen EXCEPT !.pc = "done1"] /\ slots' = slots /\ errs' = errs
  <2>1. /\ gen' \in [pc : {"acquire", "write", "done1", "done2", "ended"}, next : Nat \ {0}]
        /\ gen'.pc = "done1" /\ gen'.next = gen.next /\ gen.next = Len(files) + 1
    BY <1>3, <1>5
  <2> QED BY <1>1, <1>2, <1>3, <1>5, <2>1, GeneratorMoves
<1>6. CASE GenEnd("ctx") /\ slots' = slots
  <2>1. /\ gen' \in [pc : {"acquire", "write", "done1", "done2", "ended"}, next : Nat \ {0}]
        /\ gen'.pc = "ended" /\ gen'.next = gen.next /\ errs' = Append(errs, "ctx") /\ "ctx" \in Errors
    BY <1>3, <1>6 DEF GenEnd, Errors
  <2> QED BY <1>1, <1>2, <1>3, <1>6, <2>1, GeneratorMoves
<1>7. CASE /\ ~(gen.next > Len(files)) /\ slots < MaxOutstanding /\ slots' = slots + 1
           /\ gen' = [gen EXCEPT !.pc = "write"] /\ errs' = errs
  <2>1. /\ gen' \in [pc : {"acquire", "write", "done1", "done2", "ended"}, next : Nat \ {0}]
        /\ gen'.pc = "write" /\ gen'.next = gen.next /\ gen.next <= Len(files) /\ slots' \in 0..MaxOutstanding
    BY <1>3, <1>7
  <2> QED BY <1>1, <1>2, <1>3, <1>7, <2>1, GeneratorMoves
<1> QED BY <1>4, <1>5, <1>6, <1>7

\* The generator sends m and moves on.
LEMMA GeneratorSends ==
    ASSUME IndInv, gen.pc \in {"write", "done1", "done2"}, conn = "open",
           UNCHANGED <<disk, pc, err, loop, files, recv, slots, conn, resp, world>>,
           NEW m, req' = Append(req, m),
           gen' \in [pc : {"acquire", "done2", "ended"}, next : Nat \ {0}],
           \/ gen'.pc # "ended" /\ errs' = errs
           \/ gen'.pc = "ended" /\ \E e \in Errors : errs' = Append(errs, e),
           \/ /\ gen.pc = "write" /\ m = files[gen.next] /\ gen'.pc = "acquire" /\ gen'.next = gen.next + 1
           \/ /\ gen.pc # "write" /\ m = "done" /\ gen'.pc # "acquire" /\ gen'.next = gen.next
    PROVE  IndInv'
<1>0. pc = "transfer" /\ TypeOK /\ WorkersOK /\ StreamOK /\ NoneLost /\ (gen.pc # "done2" => ~Sent)
  BY GeneratorIn
<1>a. /\ tree' = tree /\ tmps' = tmps /\ pc' = pc /\ err' = err /\ mirror' = mirror /\ attempt' = attempt
      /\ result' = result /\ files' = files /\ recv' = recv /\ conn' = conn /\ slots' = slots /\ resp' = resp
      /\ ctxDone' = ctxDone /\ system' = system /\ skipped' = skipped /\ unseen' = unseen
      /\ faults' = faults
  BY DEF disk, loop, world
<1>b. /\ files \in Seq(Names) /\ req \in Seq(Names \cup {"done"}) /\ errs \in Seq(Errors)
      /\ gen.next \in Nat \ {0} /\ Len(files) \in Nat /\ gen.next <= Len(files) + 1
      /\ (gen.pc = "write" => gen.next <= Len(files)) /\ (gen.pc # "write" => gen.next = Len(files) + 1)
  BY <1>0 DEF TypeOK, WorkersOK
<1>1. /\ errs' \in Seq(Errors)
      /\ Len(errs') = Len(errs) + (IF gen'.pc = "ended" THEN 1 ELSE 0)
      /\ (\E i \in 1..Len(errs) : errs[i] # "nil") => \E i \in 1..Len(errs') : errs'[i] # "nil"
  <2>2. CASE gen'.pc # "ended" /\ errs' = errs
    BY <1>b, <2>2
  <2>3. CASE gen'.pc = "ended" /\ \E e \in Errors : errs' = Append(errs, e)
    BY <1>b, <2>3, OneMoreResult
  <2> QED BY <2>2, <2>3
<1>2. m \in Range(files) \cup {"done"} /\ m \in Names \cup {"done"} /\ (gen.pc = "write" => m \in Range(files))
  <2>1. CASE gen.pc = "write"
    <3>1. gen.next \in 1..Len(files)
      BY <1>b, <2>1
    <3> QED BY <1>b, <2>1, <3>1, RangeAt
  <2> QED BY <2>1
<1>3. req' \in Seq(Names \cup {"done"}) /\ Range(req') = Range(req) \cup {m}
  BY <1>b, <1>2, RangeOfAppend
<1>4. TypeOK'
  BY <1>0, <1>a, <1>1, <1>3 DEF TypeOK
<1>5. WorkersOK'
  <2>1. Len(errs') = (IF gen'.pc = "ended" THEN 1 ELSE 0) + (IF recv'.pc = "ended" THEN 1 ELSE 0)
    BY <1>0, <1>a, <1>1 DEF WorkersOK
  <2>2. gen'.next <= Len(files) + 1 /\ (gen'.pc = "done2" => gen'.next = Len(files) + 1)
    BY <1>b
  <2> QED BY <1>0, <1>a, <1>1, <2>1, <2>2 DEF WorkersOK
<1>6. Sent' => gen'.pc \in {"done2", "ended"} /\ gen'.next = Len(files) + 1
  <2>1. CASE gen.pc = "write"
    <3>1. m # "done"
      <4>1. m \in Names
        BY <1>2, <1>b, <2>1, RangeAt
      <4> QED BY <4>1, ConstantsOK
    <3>2. ~Sent'
      BY <1>0, <1>3, <1>a, <2>1, <3>1 DEF Sent
    <3> QED BY <3>2
  <2> QED BY <1>b, <2>1
<1>7. DoneLast(req')
  <2>1. m = "done" \/ "done" \notin Range(req)
    BY <1>0 DEF Sent
  <2>2. DoneLast(req)
    BY <1>0 DEF StreamOK
  <2> QED BY <1>b, <1>2, <2>1, <2>2, DoneLastKept
<1>8. StreamOK'
  <2>1. /\ "done" \in Range(resp') => Range(req') \subseteq {"done"}
        /\ recv'.phase = 1 => Range(resp') \cup Range(req') \subseteq {"done"}
    BY <1>0, <1>3, <1>a DEF StreamOK, Sent
  <2>2. Shaped(resp, recv.pc = "data")' = Shaped(resp, recv.pc = "data") /\ DoneLast(resp)' = DoneLast(resp)
    BY <1>a
  <2> QED BY <1>0, <1>2, <1>3, <1>6, <1>7, <1>a, <2>1, <2>2 DEF StreamOK
<1>9. NoneLost'
  <2>1. ASSUME recv.pc # "ended" \/ recv.phase = 1, NEW i \in 1..(gen'.next - 1)
        PROVE  Accounted(files[i])'
    <3>1. CASE i \in 1..(gen.next - 1)
      <4>1. Accounted(files[i])
        BY <1>0, <2>1, <3>1 DEF NoneLost
      <4> QED BY <1>a, <1>3, <4>1 DEF Accounted
    <3>2. CASE i \notin 1..(gen.next - 1)
      <4>1. gen.pc = "write" /\ i = gen.next
        BY <1>b, <3>2
      <4>2. files[i] \in Range(req')
        BY <1>3, <4>1
      <4> QED BY <1>a, <4>2 DEF Accounted
    <3> QED BY <3>1, <3>2
  <2> QED BY <1>a, <2>1 DEF NoneLost
<1> QED BY <1>0, <1>a, <1>4, <1>5, <1>8, <1>9, TransferKeeps DEF Within

LEMMA GenWriteKeeps == IndInv /\ GenWrite => IndInv'
<1> SUFFICES ASSUME IndInv, GenWrite PROVE IndInv'
  OBVIOUS
<1>1. /\ gen.pc \in {"write", "done1", "done2"}
      /\ UNCHANGED <<disk, pc, err, loop, files, recv, slots, conn, resp, world>>
  BY DEF GenWrite
<1>2. TypeOK /\ WorkersOK /\ StreamOK /\ pc = "transfer" /\ (gen.pc # "done2" => ~Sent)
  BY <1>1, GeneratorIn
<1>3. /\ gen \in [pc : {"idle", "acquire", "write", "done1", "done2", "ended"}, next : Nat \ {0}]
      /\ gen.next <= Len(files) + 1 /\ Len(files) \in Nat /\ slots' \in 0..MaxOutstanding
      /\ (gen.pc = "write" => gen.next <= Len(files)) /\ (gen.pc # "write" => gen.next = Len(files) + 1)
  BY <1>1, <1>2 DEF TypeOK, WorkersOK
<1>4. "nil" \in Errors /\ "conn" \in Errors /\ "other" \in Errors
  BY DEF Errors
<1> DEFINE Sending ==
             \/ gen.pc = "write" /\ gen' = [pc |-> "acquire", next |-> gen.next + 1] /\ errs' = errs
             \/ gen.pc = "done1" /\ gen' = [gen EXCEPT !.pc = "done2"] /\ errs' = errs
             \/ gen.pc = "done2" /\ gen' = [gen EXCEPT !.pc = "ended"] /\ errs' = Append(errs, "nil")
<1>5. \/ /\ conn = "open" /\ req' = Append(req, IF gen.pc = "write" THEN files[gen.next] ELSE "done")
         /\ Sending
      \/ conn = "reset" /\ req' = req /\ Sending
      \/ conn # "open" /\ GenEnd(IF conn = "reset" THEN "conn" ELSE "other") /\ req' = req
  BY DEF GenWrite, GenEnd
<1>6. ASSUME Sending
      PROVE  /\ gen' \in [pc : {"acquire", "done2", "ended"}, next : Nat \ {0}]
             /\ \/ gen'.pc # "ended" /\ errs' = errs
                \/ gen'.pc = "ended" /\ \E e \in Errors : errs' = Append(errs, e)
             /\ \/ gen.pc = "write" /\ gen'.pc = "acquire" /\ gen'.next = gen.next + 1
                \/ gen.pc # "write" /\ gen'.pc # "acquire" /\ gen'.next = gen.next
  <2>1. CASE gen.pc = "write" /\ gen' = [pc |-> "acquire", next |-> gen.next + 1] /\ errs' = errs
    BY <1>3, <2>1
  <2>2. CASE gen.pc = "done1" /\ gen' = [gen EXCEPT !.pc = "done2"] /\ errs' = errs
    BY <1>3, <2>2
  <2>3. CASE gen.pc = "done2" /\ gen' = [gen EXCEPT !.pc = "ended"] /\ errs' = Append(errs, "nil")
    <3>1. /\ gen' \in [pc : {"acquire", "done2", "ended"}, next : Nat \ {0}] /\ gen'.pc = "ended"
          /\ gen'.next = gen.next
      BY <1>3, <2>3
    <3> QED BY <1>4, <2>3, <3>1
  <2> QED BY <1>6, <2>1, <2>2, <2>3
<1> HIDE DEF Sending
<1>7. CASE /\ conn = "open" /\ req' = Append(req, IF gen.pc = "write" THEN files[gen.next] ELSE "done")
           /\ Sending
  <2> DEFINE m == IF gen.pc = "write" THEN files[gen.next] ELSE "done"
  <2>1. req' = Append(req, m) /\ (gen.pc = "write" => m = files[gen.next]) /\ (gen.pc # "write" => m = "done")
    BY <1>7
  <2> HIDE DEF m
  <2> QED BY <1>1, <1>6, <1>7, <2>1, GeneratorSends
<1>8. CASE conn = "reset" /\ req' = req /\ Sending
  <2>1. /\ gen' \in [pc : {"acquire", "write", "done1", "done2", "ended"}, next : Nat \ {0}]
        /\ gen'.pc \in {"acquire", "done2", "ended"} /\ gen'.next <= Len(files) + 1
        /\ (gen'.pc \in {"done1", "done2"} => gen'.next = Len(files) + 1)
        /\ (Sent => gen'.pc \in {"done2", "ended"} /\ gen'.next = Len(files) + 1)
        /\ (gen'.next = gen.next \/ (conn # "open" /\ ~Sent))
    BY <1>2, <1>3, <1>6, <1>8
  <2>2. UNCHANGED <<disk, pc, err, loop, files, recv, net, world>>
    BY <1>1, <1>8 DEF net
  <2>3. gen.pc \in {"acquire", "write", "done1", "done2"} /\ (gen'.pc = "write" => gen'.next <= Len(files))
    BY <1>1, <2>1
  <2> QED BY <1>3, <1>6, <1>8, <2>1, <2>2, <2>3, GeneratorMoves
<1>9. CASE conn # "open" /\ GenEnd(IF conn = "reset" THEN "conn" ELSE "other") /\ req' = req
  <2>1. /\ gen' \in [pc : {"acquire", "write", "done1", "done2", "ended"}, next : Nat \ {0}]
        /\ gen'.pc = "ended" /\ gen'.next = gen.next
        /\ \E e \in Errors : errs' = Append(errs, e)
    BY <1>3, <1>4, <1>9 DEF GenEnd
  <2>2. UNCHANGED <<disk, pc, err, loop, files, recv, net, world>>
    BY <1>1, <1>9 DEF net
  <2>3. gen.pc \in {"acquire", "write", "done1", "done2"} /\ (Sent => gen'.next = Len(files) + 1)
    BY <1>1, <1>2, <1>3, <2>1
  <2> QED BY <1>3, <2>1, <2>2, <2>3, GeneratorMoves
<1> QED BY <1>5, <1>7, <1>8, <1>9

-----------------------------------------------------------------------------
(* The inductive invariant: the receiver.                                  *)

\* What is left of the stream after a message has been taken, or none.
LEMMA RestOfStream ==
    ASSUME NEW r \in Seq(Names \cup {"done", "end"}), DoneLast(r), NEW s, s = r \/ (r # <<>> /\ s = Tail(r))
    PROVE  s \in Seq(Names \cup {"done", "end"}) /\ Range(s) \subseteq Range(r) /\ DoneLast(s)
<1>1. CASE s = r
  BY <1>1
<1>2. CASE r # <<>> /\ s = Tail(r)
  <2>1. Tail(r) \in Seq(Names \cup {"done", "end"}) /\ Range(Tail(r)) \subseteq Range(r)
    BY <1>2, RangeOfTail
  <2>2. DoneLast(Tail(r))
    BY <1>2, DoneLastKept
  <2> QED BY <1>2, <2>1, <2>2
<1> QED BY <1>1, <1>2

\* The receiver runs within the transfer.
LEMMA ReceiverIn ==
    ASSUME IndInv, recv.pc \in {"loop", "read", "data", "rename", "release"}
    PROVE  /\ pc = "transfer" /\ TypeOK /\ WorkersOK /\ StreamOK /\ NoneLost
           /\ recv \in [pc : {"idle", "loop", "read", "data", "rename", "release", "ended"},
                        cur : Names \cup {"none"}, phase : {0, 1}]
           /\ resp \in Seq(Names \cup {"done", "end"}) /\ files \in Seq(Names) /\ errs \in Seq(Errors)
           /\ gen.next \in Nat \ {0} /\ gen.next <= Len(files) + 1 /\ Len(files) \in Nat
<1>1. TypeOK /\ WorkersOK /\ StreamOK /\ NoneLost
  BY DEF IndInv
<1>2. pc = "transfer"
  BY <1>1 DEF WorkersOK
<1> QED BY <1>1, <1>2 DEF TypeOK, WorkersOK

\* What the receiver never touches.
Beside == UNCHANGED <<pc, err, mirror, attempt, result, files, gen, conn, req, ctxDone, system, skipped,
                    unseen>>

\* The receiver ends, with an error unless the second NDX_DONE has arrived.
LEMMA ReceiverEnds ==
    ASSUME IndInv, recv.pc \in {"loop", "read", "data", "rename"}, Beside, tree' = tree, slots' = slots,
           tmps' \subseteq Names, faults' \in 0..MaxFaults,
           NEW e \in Errors, RecvEnd(e), recv.phase = 0 => e # "nil",
           resp' = resp \/ (resp # <<>> /\ resp' = Tail(resp))
    PROVE  IndInv'
<1>0. /\ pc = "transfer" /\ TypeOK /\ WorkersOK /\ StreamOK /\ NoneLost
      /\ resp \in Seq(Names \cup {"done", "end"}) /\ files \in Seq(Names) /\ errs \in Seq(Errors)
      /\ gen.next \in Nat \ {0} /\ gen.next <= Len(files) + 1 /\ Len(files) \in Nat
  BY ReceiverIn
<1>1. /\ recv' \in [pc : {"idle", "loop", "read", "data", "rename", "release", "ended"},
                    cur : Names \cup {"none"}, phase : {0, 1}]
      /\ recv'.pc = "ended" /\ recv'.phase = recv.phase /\ errs' = Append(errs, e)
  BY ReceiverIn DEF RecvEnd
<1>2. /\ errs' \in Seq(Errors) /\ Len(errs') = Len(errs) + 1
      /\ e # "nil" => \E i \in 1..Len(errs') : errs'[i] # "nil"
  BY <1>0, <1>1, OneMoreResult
<1>3. resp' \in Seq(Names \cup {"done", "end"}) /\ Range(resp') \subseteq Range(resp) /\ DoneLast(resp')
  BY <1>0, RestOfStream DEF StreamOK
<1>4. TypeOK'
  BY <1>0, <1>1, <1>2, <1>3 DEF TypeOK, Beside
<1>5. WorkersOK'
  <2>1. Len(errs') = (IF gen'.pc = "ended" THEN 1 ELSE 0) + (IF recv'.pc = "ended" THEN 1 ELSE 0)
    BY <1>0, <1>1, <1>2 DEF WorkersOK, Beside
  <2> QED BY <1>0, <1>1, <1>2, <2>1 DEF WorkersOK, Beside
<1>6. StreamOK'
  <2>1. Sent' => Sent
    BY <1>1, <1>3 DEF Sent, Beside
  <2>2. DoneLast(req)' = DoneLast(req)
    BY DEF Beside
  <2> QED BY <1>0, <1>1, <1>3, <2>1, <2>2 DEF StreamOK, Beside
<1>7. NoneLost'
  <2>1. ASSUME recv.phase = 1, NEW i \in 1..(gen.next - 1) PROVE Accounted(files[i])'
    <3>1. i \in 1..Len(files)
      BY <1>0
    <3>2. files[i] \in Range(files)
      BY <1>0, <3>1, RangeAt
    <3>3. files[i] \in skipped \/ tree[files[i]] = mirror
      BY <1>0, <2>1, <3>2, DoneMeansAll
    <3> QED BY <3>3 DEF Accounted, Beside
  <2> QED BY <1>1, <2>1 DEF NoneLost, Beside
<1> QED BY <1>0, <1>4, <1>5, <1>6, <1>7, TransferKeeps DEF Within, Beside

\* The receiver goes on: what is left to show of a step that does not end it.
LEMMA ReceiverGoes ==
    ASSUME IndInv, recv.pc \in {"loop", "read", "data", "rename", "release"}, Beside, errs' = errs,
           tree' \in [Names -> Contents], tmps' \subseteq Names, faults' = faults, slots' \in 0..MaxOutstanding,
           recv' \in [pc : {"loop", "read", "data", "rename", "release"},
                      cur : Names \cup {"none"}, phase : {0, 1}],
           resp' = resp \/ (resp # <<>> /\ resp' = Tail(resp)),
           Shaped(resp', recv'.pc = "data"),
           recv'.pc \in {"data", "rename"} => recv'.cur \in Range(files),
           recv'.pc \in {"data", "rename", "release"} => recv'.phase = 0,
           recv'.phase = 1 => Range(resp) \cup Range(req) \subseteq {"done"},
           Sent' => Sent,
           \A n \in Names : Accounted(n) => Accounted(n)'
    PROVE  IndInv'
<1>0. /\ pc = "transfer" /\ TypeOK /\ WorkersOK /\ StreamOK /\ NoneLost
      /\ resp \in Seq(Names \cup {"done", "end"}) /\ files \in Seq(Names)
      /\ gen.next \in Nat \ {0} /\ gen.next <= Len(files) + 1 /\ Len(files) \in Nat
  BY ReceiverIn
<1>3. resp' \in Seq(Names \cup {"done", "end"}) /\ Range(resp') \subseteq Range(resp) /\ DoneLast(resp')
  BY <1>0, RestOfStream DEF StreamOK
<1>4. TypeOK'
  BY <1>0, <1>3 DEF TypeOK, Beside
<1>5. WorkersOK'
  BY <1>0 DEF WorkersOK, Beside
<1>6. StreamOK'
  <2>2. DoneLast(req)' = DoneLast(req)
    BY DEF Beside
  <2> QED BY <1>0, <1>3, <2>2 DEF StreamOK, Beside
<1>7. NoneLost'
  <2>1. ASSUME conn = "open" \/ Sent, NEW i \in 1..(gen.next - 1) PROVE Accounted(files[i])'
    <3>1. i \in 1..Len(files)
      BY <1>0
    <3>2. files[i] \in Names
      BY <1>0, <3>1
    <3>3. Accounted(files[i])
      BY <1>0, <2>1 DEF NoneLost
    <3>4. ASSUME NEW n \in Names, Accounted(n) PROVE Accounted(n)'
      BY <3>4
    <3>5. PICK n \in Names : n = files[i]
      BY <3>2
    <3>6. Accounted(n)'
      BY <3>3, <3>4, <3>5
    <3> QED BY <3>5, <3>6 DEF Accounted, Beside
  <2> QED BY <2>1 DEF NoneLost, Beside
<1> QED BY <1>0, <1>4, <1>5, <1>6, <1>7, TransferKeeps DEF Within, Beside

LEMMA RecvLoopKeeps == IndInv /\ RecvLoop => IndInv'
<1> SUFFICES ASSUME IndInv, RecvLoop PROVE IndInv'
  OBVIOUS
<1>1. recv.pc = "loop" /\ UNCHANGED <<disk, pc, err, loop, files, gen, slots, net, world>>
  BY DEF RecvLoop
<1>2. /\ Beside /\ tree' = tree /\ tmps' = tmps /\ slots' = slots /\ faults' = faults /\ resp' = resp
      /\ TypeOK /\ StreamOK /\ pc = "transfer"
  BY <1>1, ReceiverIn DEF Beside, disk, loop, net, world
<1>3. tmps' \subseteq Names /\ faults' \in 0..MaxFaults /\ tree' \in [Names -> Contents] /\ slots' \in 0..MaxOutstanding
  BY <1>2 DEF TypeOK
<1>4. RecvEnd("ctx") \/ (recv' = [recv EXCEPT !.pc = "read"] /\ errs' = errs)
  BY Zenon DEF RecvLoop
<1>5. CASE RecvEnd("ctx")
  <2>1. "ctx" \in Errors /\ "ctx" # "nil"
    BY DEF Errors
  <2> QED BY <1>1, <1>2, <1>3, <1>5, <2>1, ReceiverEnds
<1>6. CASE recv' = [recv EXCEPT !.pc = "read"] /\ errs' = errs
  <2>1. /\ recv' \in [pc : {"loop", "read", "data", "rename", "release"},
                      cur : Names \cup {"none"}, phase : {0, 1}]
        /\ recv'.pc = "read" /\ recv'.phase = recv.phase
    BY <1>1, <1>6, ReceiverIn
  <2>2. Shaped(resp', recv'.pc = "data")
    <3>1. Shaped(resp, recv.pc = "data")
      BY <1>1, <1>2 DEF StreamOK
    <3>2. (recv.pc = "data") = FALSE /\ (recv'.pc = "data") = FALSE
      BY <1>1, <2>1
    <3> QED BY <1>2, <3>1, <3>2
  <2>3. recv'.phase = 1 => Range(resp) \cup Range(req) \subseteq {"done"}
    BY <1>2, <2>1 DEF StreamOK
  <2>4. Sent' => Sent
    BY <1>2, <2>1 DEF Sent, Beside
  <2>5. \A n \in Names : Accounted(n) => Accounted(n)'
    BY <1>1, <1>2 DEF Accounted, Beside
  <2> QED BY <1>1, <1>2, <1>3, <1>6, <2>1, <2>2, <2>3, <2>4, <2>5, ReceiverGoes
<1> QED BY <1>4, <1>5, <1>6

LEMMA RecvReleaseKeeps == IndInv /\ RecvRelease => IndInv'
<1> SUFFICES ASSUME IndInv, RecvRelease PROVE IndInv'
  OBVIOUS
<1>1. /\ recv.pc = "release" /\ recv' = [recv EXCEPT !.pc = "loop"]
      /\ slots' = (IF slots > 0 THEN slots - 1 ELSE 0)
      /\ UNCHANGED <<disk, pc, err, loop, files, gen, errs, net, world>>
  BY DEF RecvRelease
<1>2. /\ Beside /\ tree' = tree /\ tmps' = tmps /\ errs' = errs /\ faults' = faults /\ resp' = resp
      /\ TypeOK /\ StreamOK /\ pc = "transfer"
  BY <1>1, ReceiverIn DEF Beside, disk, loop, net, world
<1>3. tmps' \subseteq Names /\ tree' \in [Names -> Contents]
  BY <1>2 DEF TypeOK
<1>4. slots' \in 0..MaxOutstanding
  BY <1>1, <1>2, ConstantsOK, SMTT(30) DEF TypeOK
<1>5. /\ recv' \in [pc : {"loop", "read", "data", "rename", "release"},
                    cur : Names \cup {"none"}, phase : {0, 1}]
      /\ recv'.pc = "loop" /\ recv'.phase = recv.phase
  BY <1>1, ReceiverIn
<1>6. Shaped(resp', recv'.pc = "data")
  <2>1. Shaped(resp, recv.pc = "data")
    BY <1>1, <1>2 DEF StreamOK
  <2>2. (recv.pc = "data") = FALSE /\ (recv'.pc = "data") = FALSE
    BY <1>1, <1>5
  <2> QED BY <1>2, <2>1, <2>2
<1>7. recv'.phase = 1 => Range(resp) \cup Range(req) \subseteq {"done"}
  BY <1>2, <1>5 DEF StreamOK
<1>8. Sent' => Sent
  BY <1>2, <1>5 DEF Sent, Beside
<1>9. \A n \in Names : Accounted(n) => Accounted(n)'
  BY <1>1, <1>2 DEF Accounted, Beside
<1> QED BY <1>1, <1>2, <1>3, <1>4, <1>5, <1>6, <1>7, <1>8, <1>9, ReceiverGoes

LEMMA RecvFailsKeeps == IndInv /\ RecvFails => IndInv'
<1> SUFFICES ASSUME IndInv, RecvFails PROVE IndInv'
  OBVIOUS
<1> DEFINE e == IF conn = "reset" THEN "conn" ELSE "other"
<1>1. /\ recv.pc \in {"read", "data"} /\ RecvEnd(e)
      /\ tmps' = (IF recv.pc = "data" THEN tmps \ {recv.cur} ELSE tmps)
      /\ UNCHANGED <<tree, pc, err, loop, files, gen, slots, net, world>>
  BY DEF RecvFails
<1>2. e \in Errors /\ e # "nil"
  BY DEF Errors
<1> HIDE DEF e
<1>3. Beside /\ tree' = tree /\ slots' = slots /\ faults' = faults /\ resp' = resp /\ TypeOK
  BY <1>1, ReceiverIn DEF Beside, loop, net, world
<1>4. tmps' \subseteq Names /\ faults' \in 0..MaxFaults
  BY <1>1, <1>3 DEF TypeOK
<1> QED BY <1>1, <1>2, <1>3, <1>4, ReceiverEnds

LEMMA RecvRenameKeeps == IndInv /\ RecvRename => IndInv'
<1> SUFFICES ASSUME IndInv, RecvRename PROVE IndInv'
  OBVIOUS
<1>1. /\ recv.pc = "rename" /\ tmps' = tmps \ {recv.cur}
      /\ UNCHANGED <<pc, err, loop, files, gen, slots, net, ctxDone, system, skipped, unseen>>
  BY DEF RecvRename
<1>2. Beside /\ slots' = slots /\ resp' = resp /\ TypeOK /\ StreamOK /\ LoopOK /\ pc = "transfer"
  BY <1>1, ReceiverIn DEF Beside, loop, net, IndInv
<1>3. tmps' \subseteq Names /\ recv.phase = 0 /\ recv.cur \in Range(files) /\ slots' \in 0..MaxOutstanding
  BY <1>1, <1>2 DEF TypeOK, StreamOK
<1>4. recv.cur \in Names /\ mirror \in Contents
  <2>1. recv.cur \in Names
    BY <1>1, <1>3, ReceiverIn, RangeAt
  <2>2. mirror \in Contents
    BY <1>2, ConstantsOK DEF TypeOK, LoopOK, Contents
  <2> QED BY <2>1, <2>2
<1>5. CASE /\ tree' = [tree EXCEPT ![recv.cur] = mirror]
           /\ recv' = [recv EXCEPT !.pc = "release"] /\ UNCHANGED <<errs, faults>>
  <2>1. /\ recv' \in [pc : {"loop", "read", "data", "rename", "release"},
                      cur : Names \cup {"none"}, phase : {0, 1}]
        /\ recv'.pc = "release" /\ recv'.phase = 0
    BY <1>1, <1>3, <1>5, ReceiverIn
  <2>2. tree' \in [Names -> Contents] /\ tree'[recv.cur] = mirror /\ \A n \in Names \ {recv.cur} : tree'[n] = tree[n]
    BY <1>2, <1>4, <1>5 DEF TypeOK
  <2>3. Shaped(resp', recv'.pc = "data")
    <3>1. Shaped(resp, recv.pc = "data")
      BY <1>1, <1>2 DEF StreamOK
    <3>2. (recv.pc = "data") = FALSE /\ (recv'.pc = "data") = FALSE
      BY <1>1, <2>1
    <3> QED BY <1>2, <3>1, <3>2
  <2>4. Sent' => Sent
    BY <1>2, <2>1 DEF Sent, Beside
  <2>5. \A n \in Names : Accounted(n) => Accounted(n)'
    BY <1>1, <1>2, <2>2 DEF Accounted, Beside
  <2> QED BY <1>1, <1>2, <1>3, <1>5, <2>1, <2>2, <2>3, <2>4, <2>5, ReceiverGoes
<1>6. CASE RecvEnd("other") /\ UNCHANGED <<tree, faults>>
  <2>1. "other" \in Errors /\ "other" # "nil" /\ faults' \in 0..MaxFaults
    BY <1>2, <1>6 DEF Errors, TypeOK
  <2> QED BY <1>1, <1>2, <1>3, <1>6, <2>1, ReceiverEnds
<1>7. CASE Fault /\ RecvEnd("disk") /\ UNCHANGED tree
  <2>1. "disk" \in Errors /\ "disk" # "nil" /\ faults' \in 0..MaxFaults
    BY <1>2, <1>7, ConstantsOK DEF Errors, TypeOK, Fault
  <2> QED BY <1>1, <1>2, <1>3, <1>7, <2>1, ReceiverEnds
<1> QED BY <1>5, <1>6, <1>7 DEF RecvRename

LEMMA RecvDataKeeps == IndInv /\ RecvData => IndInv'
<1> SUFFICES ASSUME IndInv, RecvData PROVE IndInv'
  OBVIOUS
<1>1. /\ recv.pc = "data" /\ resp # <<>> /\ resp' = Tail(resp) /\ recv' = [recv EXCEPT !.pc = "rename"]
      /\ UNCHANGED <<disk, pc, err, loop, files, gen, slots, errs, conn, req, world>>
  BY DEF RecvData
<1>2. /\ Beside /\ tree' = tree /\ tmps' = tmps /\ errs' = errs /\ faults' = faults /\ slots' = slots
      /\ TypeOK /\ StreamOK /\ pc = "transfer" /\ resp \in Seq(Names \cup {"done", "end"})
  BY <1>1, ReceiverIn DEF Beside, disk, loop, world
<1>3. tmps' \subseteq Names /\ tree' \in [Names -> Contents] /\ slots' \in 0..MaxOutstanding
  BY <1>2 DEF TypeOK
<1>4. /\ recv' \in [pc : {"loop", "read", "data", "rename", "release"},
                    cur : Names \cup {"none"}, phase : {0, 1}]
      /\ recv'.pc = "rename" /\ recv'.phase = 0 /\ recv'.cur = recv.cur /\ recv.cur \in Range(files)
      /\ recv.phase = 0
  BY <1>1, <1>2, ReceiverIn DEF StreamOK
<1>5. Head(resp) = "end" /\ Shaped(resp', recv'.pc = "data")
  <2>1. Shaped(resp, recv.pc = "data")
    BY <1>1, <1>2 DEF StreamOK
  <2>2. (recv.pc = "data") = TRUE /\ (recv'.pc = "data") = FALSE
    BY <1>1, <1>4
  <2>3. Shaped(resp, TRUE)
    BY <2>1, <2>2
  <2>4. Head(resp) = "end" /\ Shaped(Tail(resp), FALSE)
    BY <1>1, <1>2, <2>3, ShapedTail
  <2> QED BY <1>1, <2>2, <2>4
<1>6. Range(resp) = {"end"} \cup Range(resp')
  BY <1>1, <1>2, <1>5, RangeOfTail
<1>7. Sent' => Sent
  BY <1>2, <1>4, <1>6 DEF Sent, Beside
<1>8. "end" \notin Names
  BY ConstantsOK
<1>9. \A n \in Names : Accounted(n) => Accounted(n)'
  BY <1>1, <1>2, <1>4, <1>6, <1>8 DEF Accounted, Beside
<1> QED BY <1>1, <1>2, <1>3, <1>4, <1>5, <1>7, <1>9, ReceiverGoes

LEMMA RecvIndexKeeps == IndInv /\ RecvIndex => IndInv'
<1> SUFFICES ASSUME IndInv, RecvIndex PROVE IndInv'
  OBVIOUS
<1>1. /\ recv.pc = "read" /\ resp # <<>> /\ resp' = Tail(resp)
      /\ UNCHANGED <<tree, pc, err, loop, files, gen, slots, conn, req, world>>
  BY DEF RecvIndex
<1>2. /\ Beside /\ tree' = tree /\ faults' = faults /\ slots' = slots
      /\ TypeOK /\ StreamOK /\ pc = "transfer" /\ resp \in Seq(Names \cup {"done", "end"})
      /\ files \in Seq(Names) /\ recv.phase \in {0, 1}
  BY <1>1, ReceiverIn DEF Beside, loop, world
<1>3. tree' \in [Names -> Contents] /\ slots' \in 0..MaxOutstanding /\ tmps \subseteq Names /\ faults' \in 0..MaxFaults
  BY <1>2 DEF TypeOK
<1>4. Head(resp) # "end" /\ Shaped(resp', Head(resp) \in Names)
  <2>1. Shaped(resp, recv.pc = "data")
    BY <1>1, <1>2 DEF StreamOK
  <2>2. (recv.pc = "data") = FALSE
    BY <1>1
  <2>3. Shaped(resp, FALSE)
    BY <2>1, <2>2
  <2> QED BY <1>1, <1>2, <2>3, ShapedTail
<1>5. Range(resp) = {Head(resp)} \cup Range(resp') /\ Head(resp) \in Range(resp)
  BY <1>1, <1>2, RangeOfTail
<1>6. "done" \notin Names /\ "end" \notin Names /\ Range(files) \subseteq Names
  BY <1>2, RangeAt, ConstantsOK
<1>7. CASE Head(resp) = "done" /\ recv.phase = 1
  <2>1. RecvEnd("nil") /\ tmps' = tmps
    BY <1>7 DEF RecvIndex
  <2>2. "nil" \in Errors
    BY DEF Errors
  <2> QED BY <1>1, <1>2, <1>3, <1>7, <2>1, <2>2, ReceiverEnds
<1>8. CASE Head(resp) = "done" /\ recv.phase = 0
  <2>1. recv' = [recv EXCEPT !.pc = "loop", !.phase = 1] /\ errs' = errs /\ tmps' = tmps
    BY <1>8 DEF RecvIndex
  <2>2. /\ recv' \in [pc : {"loop", "read", "data", "rename", "release"},
                      cur : Names \cup {"none"}, phase : {0, 1}]
        /\ recv'.pc = "loop" /\ recv'.phase = 1
    BY <1>1, <2>1, ReceiverIn
  <2>3. Range(resp) \cup Range(req) \subseteq {"done"}
    <3>1. DoneLast(resp) /\ ("done" \in Range(resp) => Range(req) \subseteq {"done"})
      BY <1>2 DEF StreamOK
    <3> QED BY <1>1, <1>2, <1>5, <1>8, <3>1, DoneLastKept
  <2>4. Shaped(resp', recv'.pc = "data")
    <3>1. (Head(resp) \in Names) = FALSE /\ (recv'.pc = "data") = FALSE
      BY <1>6, <1>8, <2>2
    <3> QED BY <1>4, <3>1
  <2>5. Sent
    BY <1>5, <1>8 DEF Sent
  <2>6. \A n \in Names : Accounted(n) => Accounted(n)'
    BY <1>1, <1>2, <1>5, <1>6, <1>8 DEF Accounted, Beside
  <2> QED BY <1>1, <1>2, <1>3, <2>1, <2>2, <2>3, <2>4, <2>5, <2>6, ReceiverGoes
<1>9. CASE Head(resp) # "done"
  <2>1. recv' = [recv EXCEPT !.pc = "data", !.cur = Head(resp)] /\ tmps' = tmps \cup {Head(resp)} /\ errs' = errs
    BY <1>9 DEF RecvIndex
  <2>2. Head(resp) \in Range(files) /\ Head(resp) \in Names /\ recv.phase = 0
    BY <1>2, <1>4, <1>5, <1>6, <1>9 DEF StreamOK
  <2>3. /\ recv' \in [pc : {"loop", "read", "data", "rename", "release"},
                      cur : Names \cup {"none"}, phase : {0, 1}]
        /\ recv'.pc = "data" /\ recv'.phase = 0 /\ recv'.cur = Head(resp)
    BY <1>1, <2>1, <2>2, ReceiverIn
  <2>4. Shaped(resp', recv'.pc = "data")
    <3>1. (Head(resp) \in Names) = TRUE /\ (recv'.pc = "data") = TRUE
      BY <2>2, <2>3
    <3> QED BY <1>4, <3>1
  <2>5. Sent' => Sent
    BY <1>2, <1>5, <2>3 DEF Sent, Beside
  <2>6. \A n \in Names : Accounted(n) => Accounted(n)'
    BY <1>1, <1>2, <1>5, <2>3 DEF Accounted, Beside
  <2>7. tmps' \subseteq Names
    BY <1>3, <2>1, <2>2
  <2> QED BY <1>1, <1>2, <1>3, <2>1, <2>2, <2>3, <2>4, <2>5, <2>6, <2>7, ReceiverGoes
<1> QED BY <1>2, <1>7, <1>8, <1>9

-----------------------------------------------------------------------------
(* The inductive invariant: the mirror.                                    *)

LEMMA MirrorAnswersKeeps == IndInv /\ MirrorAnswers => IndInv'
<1> SUFFICES ASSUME IndInv, MirrorAnswers PROVE IndInv'
  OBVIOUS
<1> DEFINE h == Head(req)
           M == Names \cup {"done", "end"}
<1>1. /\ pc = "transfer" /\ req # <<>> /\ req' = Tail(req)
      /\ UNCHANGED <<disk, pc, err, loop, files, workers, conn, ctxDone, system, unseen>>
      /\ TypeOK /\ WorkersOK /\ StreamOK /\ NoneLost
  BY DEF MirrorAnswers, IndInv
<1>a. /\ tree' = tree /\ tmps' = tmps /\ pc' = pc /\ err' = err /\ mirror' = mirror /\ attempt' = attempt
      /\ result' = result /\ files' = files /\ gen' = gen /\ recv' = recv /\ slots' = slots /\ errs' = errs
      /\ conn' = conn /\ ctxDone' = ctxDone /\ system' = system /\ unseen' = unseen
  BY <1>1 DEF disk, loop, workers
<1>2. req \in Seq(Names \cup {"done"}) /\ resp \in Seq(M) /\ files \in Seq(Names)
  BY <1>1 DEF TypeOK
<1>3. /\ req' \in Seq(Names \cup {"done"}) /\ h \in Names \cup {"done"}
      /\ Range(req) = {h} \cup Range(req')
  BY <1>1, <1>2, RangeOfTail
<1>4. DoneLast(req) /\ DoneLast(resp) /\ DoneLast(req') /\ (h = "done" => Range(req) \subseteq {"done"})
  <2>1. DoneLast(req) /\ DoneLast(resp)
    BY <1>1 DEF StreamOK
  <2> QED BY <1>1, <1>2, <2>1, DoneLastKept
<1>5. "done" \notin Names /\ "end" \notin Names /\ Range(files) \subseteq Names
  BY <1>2, RangeAt, ConstantsOK
<1> HIDE DEF h
<1>6. \/ h = "done" /\ resp' = resp \o <<"done">> /\ UNCHANGED <<skipped, faults>>
      \/ h # "done" /\ resp' = resp \o <<h, "end">> /\ UNCHANGED <<skipped, faults>>
      \/ h # "done" /\ Fault /\ skipped' = skipped \cup {h} /\ resp' = resp
  BY DEF MirrorAnswers, h
\* What the three cases have in common.
<1>7. ASSUME resp' \in Seq(M), faults' \in 0..MaxFaults, skipped' \subseteq Names, skipped \subseteq skipped',
             Range(resp') \cup Range(req') \subseteq Range(files) \cup {"done", "end"},
             Range(resp) \subseteq Range(resp'),
             h \in Range(resp') \cup skipped', DoneLast(resp'),
             recv.pc # "ended" => Shaped(resp', recv.pc = "data"),
             "done" \in Range(resp') => Range(req') \subseteq {"done"},
             recv.phase = 1 => Range(resp') \cup Range(req') \subseteq {"done"},
             "done" \in Range(resp') => "done" \in Range(resp) \cup Range(req)
      PROVE  IndInv'
  <2>1. TypeOK'
    BY <1>1, <1>3, <1>a, <1>7 DEF TypeOK
  <2>2. WorkersOK'
    BY <1>1, <1>a DEF WorkersOK
  <2>3. Sent' => Sent
    BY <1>3, <1>a, <1>7 DEF Sent
  <2>4. StreamOK'
    BY <1>1, <1>4, <1>a, <1>7, <2>3 DEF StreamOK
  <2>5. NoneLost'
    <3>1. ASSUME NEW n, Accounted(n) PROVE Accounted(n)'
      BY <1>3, <1>a, <1>7, <3>1 DEF Accounted
    <3>2. ASSUME conn = "open" \/ Sent, recv.pc # "ended" \/ recv.phase = 1, NEW i \in 1..(gen.next - 1)
          PROVE  Accounted(files[i])'
      <4>1. Accounted(files[i])
        BY <1>1, <3>2 DEF NoneLost
      <4>2. PICK n : n = files[i]
        OBVIOUS
      <4>3. Accounted(n)'
        BY <3>1, <4>1, <4>2
      <4> QED BY <1>a, <4>2, <4>3 DEF Accounted
    <3> QED BY <1>a, <2>3, <3>2 DEF NoneLost
  <2> QED BY <1>1, <1>a, <2>1, <2>2, <2>4, <2>5, TransferKeeps DEF Within
<1>8. /\ Range(req) \cup Range(resp) \subseteq Range(files) \cup {"done", "end"}
      /\ recv.pc # "ended" => Shaped(resp, recv.pc = "data")
      /\ "done" \in Range(resp) => Range(req) \subseteq {"done"}
      /\ recv.phase = 1 => Range(resp) \cup Range(req) \subseteq {"done"}
  BY <1>1 DEF StreamOK
<1>b. (recv.pc = "data") \in BOOLEAN
  OBVIOUS
<1>9. CASE h = "done" /\ resp' = resp \o <<"done">> /\ UNCHANGED <<skipped, faults>>
  <2>1. resp' = Append(resp, "done") /\ "done" \in M
    BY <1>2, <1>9
  <2>2. resp' \in Seq(M) /\ Range(resp') = Range(resp) \cup {"done"}
    BY <1>2, <2>1, RangeOfAppend
  <2>3. DoneLast(resp')
    BY <1>2, <1>4, <2>1, DoneLastKept
  <2>4. recv.pc # "ended" => Shaped(resp', recv.pc = "data")
    BY <1>2, <1>8, <1>b, <2>1, ShapedAppend
  <2>5. faults' \in 0..MaxFaults /\ skipped' \subseteq Names
    BY <1>1, <1>9 DEF TypeOK
  <2>6. Range(resp') \cup Range(req') \subseteq Range(files) \cup {"done", "end"}
    BY <1>3, <1>8, <2>2
  <2> QED BY <1>3, <1>4, <1>7, <1>8, <1>9, <2>2, <2>3, <2>4, <2>5, <2>6
<1>10. CASE h # "done" /\ resp' = resp \o <<h, "end">> /\ UNCHANGED <<skipped, faults>>
  <2>0. h \in Names /\ h \in M /\ "end" \in M /\ "done" \notin Range(resp) /\ recv.phase # 1
    BY <1>3, <1>8, <1>10
  <2>1. resp' = Append(Append(resp, h), "end")
    BY <1>2, <1>10, <2>0
  <2> DEFINE q == Append(resp, h)
  <2>2. q \in Seq(M) /\ Range(q) = Range(resp) \cup {h}
    BY <1>2, <2>0, RangeOfAppend
  <2>4. DoneLast(q)
    BY <1>2, <1>4, <2>0, DoneLastKept
  <2>a. resp' = Append(q, "end") /\ "done" \notin Range(q)
    BY <1>10, <2>0, <2>1, <2>2
  <2> HIDE DEF q
  <2>3. resp' \in Seq(M) /\ Range(resp') = Range(resp) \cup {h, "end"}
    BY <2>0, <2>2, <2>a, RangeOfAppend
  <2>5. DoneLast(resp')
    BY <2>0, <2>2, <2>4, <2>a, DoneLastKept
  <2>6. recv.pc # "ended" => Shaped(resp', recv.pc = "data")
    BY <1>2, <1>8, <1>b, <2>0, <2>1, ShapedAppend
  <2>7. faults' \in 0..MaxFaults /\ skipped' \subseteq Names
    BY <1>1, <1>10 DEF TypeOK
  <2>8. Range(resp') \cup Range(req') \subseteq Range(files) \cup {"done", "end"} /\ "done" \notin Range(resp')
    BY <1>3, <1>8, <1>10, <2>0, <2>3
  <2> QED BY <1>3, <1>7, <1>10, <2>0, <2>3, <2>5, <2>6, <2>7, <2>8
<1>11. CASE h # "done" /\ Fault /\ skipped' = skipped \cup {h} /\ resp' = resp
  <2>0. h \in Names /\ skipped \subseteq Names /\ faults' \in 0..MaxFaults
    BY <1>1, <1>3, <1>11, ConstantsOK DEF TypeOK, Fault
  <2> QED BY <1>2, <1>3, <1>4, <1>7, <1>8, <1>11, <2>0
<1> QED BY <1>6, <1>9, <1>10, <1>11

-----------------------------------------------------------------------------
(* The theorems. *)

LEMMA NextIndInv == IndInv /\ [Next]_vars => IndInv'
<1> SUFFICES ASSUME IndInv, [Next]_vars PROVE IndInv'
  OBVIOUS
<1>1. CASE Syncer
  BY <1>1, NextMirrorKeeps, NextAttemptKeeps, MirrorFailedKeeps, NativeFailedKeeps, SystemSyncKeeps DEF Syncer
<1>2. CASE Protocol
  BY <1>2, ConnectKeeps, ReceiveListKeeps, CollectKeeps, DeleteKeeps, SyncReturnsKeeps DEF Protocol
<1>3. CASE CloseOnCancel
  BY <1>3, CloseOnCancelKeeps
<1>4. CASE Generator
  BY <1>4, GenAcquireKeeps, GenWriteKeeps DEF Generator
<1>5. CASE Receiver
  BY <1>5, RecvLoopKeeps, RecvIndexKeeps, RecvDataKeeps, RecvFailsKeeps, RecvRenameKeeps, RecvReleaseKeeps
     DEF Receiver
<1>6. CASE MirrorAnswers
  BY <1>6, MirrorAnswersKeeps
<1>7. CASE MirrorResets
  BY <1>7, MirrorResetsKeeps
<1>8. CASE Interrupt
  BY <1>8, InterruptKeeps
<1>9. CASE Crash
  BY <1>9, CrashKeeps
<1>10. CASE UNCHANGED vars
  <2>1. UNCHANGED <<disk, pc, err, loop, files, workers, req, resp, system, skipped, unseen, conn, ctxDone,
                    faults>>
    BY <1>10 DEF vars, disk, loop, workers
  <2>2. conn \in {"open", "reset", "closed"} /\ ctxDone \in BOOLEAN /\ faults \in 0..MaxFaults
    BY DEF IndInv, TypeOK
  <2> QED BY <2>1, <2>2, OutsideKeeps
<1> QED BY <1>1, <1>2, <1>3, <1>4, <1>5, <1>6, <1>7, <1>8, <1>9, <1>10 DEF Next, Done

LEMMA IndInvHolds == Spec => []IndInv
<1>1. Init => IndInv
  BY InitIndInv
<1>2. IndInv /\ [Next]_vars => IndInv'
  BY NextIndInv
<1> QED BY <1>1, <1>2, PTL DEF Spec

\* The variables of the synchronisation keep their types, the receiver and the
\* generator with their records, for any number of mirrors, files, retries,
\* slots and faults (rsync.go, client.go).
THEOREM TypeCorrect == Spec => []TypeOK
<1>1. IndInv => TypeOK
  BY DEF IndInv
<1> QED BY <1>1, IndInvHolds, PTL

\* Sync reports success only for a tree that is the list of one mirror, but for
\* what the mirror did not send and what could not be read (NilMeansMirrored),
\* whatever the mirrors, the retries and the faults: the receiver's second
\* NDX_DONE comes after every answer (client.go, runReceiver), deleteExtraneous
\* runs to its end, and so does the rsync binary that Sync falls back to.
THEOREM SuccessIsMirror == Spec => []NilMeansMirrored
<1>1. IndInv => NilMeansMirrored
  BY DEF IndInv, EndOK, NilMeansMirrored
<1> QED BY <1>1, IndInvHolds, PTL

\* What a step may do to the tree: ReplacedWholeDeletedLast of one step.
StepReplaces ==
    \A n \in Names : tree'[n] # tree[n] =>
          \/ tree'[n] = mirror /\ n \in Range(files) /\ Mirrored(mirror, n)
          \/ /\ tree'[n] = None /\ n \notin Range(files)
             /\ pc = "system" \/ \A k \in Range(files) \ skipped : tree'[k] = mirror
          \/ tree'[n] = None /\ tree[n] = Dir /\ pc = "system"

\* The tree changes in three actions only, each within its duties.
LEMMA NextReplaces ==
    ASSUME IndInv, [Next]_vars
    PROVE  StepReplaces
<1>0. /\ tree \in [Names -> Contents] /\ files \in Seq(Names) /\ skipped \subseteq Names
      /\ WorkersOK /\ StreamOK /\ EndOK /\ LoopOK /\ Range(files) \subseteq Names
  <2>1. files \in Seq(Names)
    BY DEF IndInv, TypeOK
  <2>2. Range(files) \subseteq Names
    BY <2>1, RangeAt
  <2> QED BY <2>1, <2>2 DEF IndInv, TypeOK
<1>a. ASSUME NEW n \in Range(files), tree' = [tree EXCEPT ![n] = mirror], Mirrored(mirror, n) PROVE StepReplaces
  BY <1>0, <1>a DEF StepReplaces
<1>4. CASE tree' = tree
  BY <1>4 DEF StepReplaces
<1>1. CASE SystemSync
  <2>1. pc = "system" /\ Range(files) \subseteq Range(Listing[mirror])
    BY <1>0, <1>1 DEF SystemSync, WorkersOK
  <2>2. SystemMoves \/ tree' = tree
    BY <1>1, SystemSyncCases DEF disk
  <2>3. ASSUME NEW n \in Extraneous \cup {k \in Range(files) : tree[k] = Dir},
               tree' = [tree EXCEPT ![n] = None]
        PROVE  StepReplaces
    <3>1. n \in Names /\ (n \notin Range(files) \/ tree[n] = Dir)
      BY <1>0, <2>3 DEF Extraneous
    <3>2. tree'[n] = None /\ \A k \in Names : tree'[k] # tree[k] => k = n
      BY <1>0, <2>3, <3>1
    <3> QED BY <2>1, <3>1, <3>2 DEF StepReplaces
  <2>4. ASSUME NEW n \in Range(files), tree' = [tree EXCEPT ![n] = mirror] PROVE StepReplaces
    BY <1>a, <2>1, <2>4 DEF Mirrored
  <2> QED BY <1>4, <2>2, <2>3, <2>4 DEF SystemMoves
<1>2. CASE RecvRename
  <2>1. pc = "transfer"
    BY <1>0, <1>2 DEF RecvRename, WorkersOK
  <2>2. recv.cur \in Range(files) /\ Range(files) \subseteq Range(Listing[mirror])
    BY <1>0, <1>2, <2>1 DEF RecvRename, WorkersOK, StreamOK
  <2>3. tree' = tree \/ tree' = [tree EXCEPT ![recv.cur] = mirror]
    BY <1>2 DEF RecvRename
  <2> QED BY <1>a, <1>4, <2>2, <2>3 DEF Mirrored
<1>3. CASE DeleteExtraneous
  <2>1. \A k \in Range(files) \ skipped : tree[k] = mirror
    BY <1>0, <1>3 DEF DeleteExtraneous, EndOK
  <2>2. ASSUME NEW n \in Extraneous \ unseen, tree' = [tree EXCEPT ![n] = None] PROVE StepReplaces
    <3>1. n \in Names \ Range(files)
      BY <2>2 DEF Extraneous
    <3>2. \A k \in Names : k # n => tree'[k] = tree[k]
      BY <1>0, <2>2
    <3>3. tree'[n] = None /\ \A k \in Range(files) \ skipped : tree'[k] = mirror
      BY <1>0, <2>1, <2>2, <3>1, <3>2
    <3> QED BY <3>1, <3>2, <3>3 DEF StepReplaces
  <2> QED BY <1>3, <1>4, <2>2 DEF DeleteExtraneous, disk
<1>5. CASE NextMirror \/ NextAttempt \/ MirrorFailed \/ NativeFailed
  BY <1>4, <1>5 DEF NextMirror, NextAttempt, MirrorFailed, NativeFailed, disk
<1>6. CASE Connect \/ ReceiveList \/ Collect \/ SyncReturns
  BY <1>4, <1>6 DEF Connect, ReceiveList, Collect, SyncReturns, disk
<1>7. CASE CloseOnCancel \/ GenAcquire \/ GenWrite
  BY <1>4, <1>7 DEF CloseOnCancel, GenAcquire, GenWrite, disk
<1>8. CASE RecvLoop \/ RecvIndex \/ RecvData \/ RecvFails \/ RecvRelease
  BY <1>4, <1>8 DEF RecvLoop, RecvIndex, RecvData, RecvFails, RecvRelease, disk
<1>9. CASE MirrorAnswers \/ MirrorResets \/ Interrupt \/ Crash
  BY <1>4, <1>9 DEF MirrorAnswers, MirrorResets, Interrupt, Crash, disk
<1>10. CASE UNCHANGED vars
  BY <1>4, <1>10 DEF vars
<1> QED BY <1>1, <1>2, <1>3, <1>5, <1>6, <1>7, <1>8, <1>9, <1>10
        DEF Next, Syncer, Protocol, Generator, Receiver, Done

\* A name changes only to the whole file of the mirror in use and disappears
\* only if its list lacks it, with the native client only after every file of
\* the list has arrived (ReplacedWholeDeletedLast): a failed or killed transfer
\* has deleted nothing that it did not replace, however short the list of the
\* mirror (client.go, receiveFile and deleteExtraneous; rsync.go, doSyncSystem).
THEOREM NothingLostBeforeReplaced == Spec => ReplacedWholeDeletedLast
<1>1. IndInv /\ [Next]_vars => StepReplaces
  BY NextReplaces
<1>2. [][StepReplaces]_vars => ReplacedWholeDeletedLast
  BY PTL DEF StepReplaces, ReplacedWholeDeletedLast
<1> QED BY <1>1, <1>2, IndInvHolds, PTL DEF Spec
=============================================================================
