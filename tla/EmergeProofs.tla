---------------------------- MODULE EmergeProofs ----------------------------
(***************************************************************************)
(* Proofs about `grpm emerge`: what it builds (EmergeBuild) and what it    *)
(* installs and removes (PackageInstall).  The two models share no         *)
(* variable; each theorem is about the specification it names.             *)
(***************************************************************************)
EXTENDS EmergeBuild, PackageInstall, FiniteSetTheorems, FunctionTheorems,
        WellFoundedInduction, TLAPS

(***************************************************************************)
(* The build.  The order of the builds and the files they merge, for any   *)
(* dependency graph, any number of packages and of commands: see           *)
(* DependenciesMergedFirst and MergedIsOwn in EmergeBuild.                 *)
(***************************************************************************)

-----------------------------------------------------------------------------
(* Induction and recursion over the natural numbers in a form that first-  *)
(* order provers can use: the predicate is a set and the step of a         *)
(* recursive function is a function.  All of it rests on the library's     *)
(* theorem that every nonempty subset of a well-founded set has a minimal  *)
(* element.                                                                *)

\* A nonempty set of natural numbers has a smallest member, and Min is it.
LEMMA NatMin ==
    ASSUME NEW S, S \subseteq Nat, S # {}
    PROVE  Min(S) \in S /\ \A y \in S : Min(S) <= y
<1> DEFINE R == OpToRel(<, Nat)
<1>1. IsWellFoundedOn(R, Nat)
  BY NatLessThanWellFounded
<1>2. \A x, y \in Nat : y < x => <<y, x>> \in R
  BY DEF OpToRel
<1> HIDE DEF R
<1>3. PICK x \in S : \A y \in S : ~ (<<y, x>> \in R)
  BY <1>1, WFMin, Zenon
<1>4. ASSUME NEW y \in S PROVE x <= y
  <2>1. x \in Nat /\ y \in Nat
    OBVIOUS
  <2>2. ~(y < x)
    BY <1>2, <1>3, <2>1
  <2> QED BY <2>1, <2>2
<1> QED BY <1>3, <1>4 DEF Min

\* A set that contains 0 and the successor of each of its members contains
\* every natural number.
LEMMA SetInduction ==
    ASSUME NEW S, 0 \in S, \A n \in Nat : n \in S => n + 1 \in S
    PROVE  Nat \subseteq S
<1> DEFINE T == Nat \ S
<1> SUFFICES ASSUME T # {} PROVE FALSE
    OBVIOUS
<1>1. Min(T) \in T /\ \A y \in T : Min(T) <= y
  BY NatMin
<1>2. Min(T) \in Nat /\ Min(T) # 0
  BY <1>1
<1>3. Min(T) - 1 \in T
  BY <1>1, <1>2
<1> QED BY <1>1, <1>2, <1>3

\* Among the members of a nonempty set one has the smallest measure.
LEMMA LeastMeasure ==
    ASSUME NEW S, S # {}, NEW f \in [S -> Nat]
    PROVE  \E x \in S : \A y \in S : f[x] <= f[y]
<1> DEFINE I == {f[x] : x \in S}
<1>1. I \subseteq Nat /\ I # {}
  OBVIOUS
<1> HIDE DEF I
<1>2. Min(I) \in I /\ \A n \in I : Min(I) <= n
  BY <1>1, NatMin
<1> QED BY <1>2 DEF I

\* g lists what repeating the step h, from the start a, leads to in X.
Iterates(g, X, a, h, N) ==
    g \in [0 .. N -> X] /\ g[0] = a /\ \A i \in 1 .. N : g[i] = h[g[i - 1]]

\* Repeating a step h from a start a yields a function on 0 .. N.
LEMMA Iteration ==
    ASSUME NEW X, NEW a \in X, NEW h \in [X -> X], NEW N \in Nat
    PROVE  \E g : Iterates(g, X, a, h, N)
<1> DEFINE Holds(n) == \E g \in [0 .. n -> X] : g[0] = a /\ \A i \in 1 .. n : g[i] = h[g[i - 1]]
           S == {n \in Nat : Holds(n)}
<1>1. 0 \in S
  <2> DEFINE e == [i \in 0 .. 0 |-> a]
  <2>1. e \in [0 .. 0 -> X] /\ e[0] = a /\ 1 .. 0 = {}
    OBVIOUS
  <2> HIDE DEF e
  <2>2. Holds(0)
    BY <2>1
  <2> QED BY <2>2
<1>2. ASSUME NEW n \in Nat, n \in S PROVE n + 1 \in S
  <2>1. PICK g \in [0 .. n -> X] : g[0] = a /\ \A i \in 1 .. n : g[i] = h[g[i - 1]]
    BY <1>2
  <2> DEFINE e == [i \in 0 .. (n + 1) |-> IF i <= n THEN g[i] ELSE h[g[n]]]
  <2>2. e \in [0 .. (n + 1) -> X]
    BY <2>1
  <2>3. e[0] = a
    BY <2>1
  <2>4. ASSUME NEW i \in 1 .. (n + 1) PROVE e[i] = h[e[i - 1]]
    <3>1. CASE i <= n
      <4>1. i \in 1 .. n /\ i - 1 \in 0 .. n /\ i \in 0 .. (n + 1) /\ i - 1 \in 0 .. (n + 1) /\ i - 1 <= n
        BY <3>1
      <4> QED BY <2>1, <3>1, <4>1
    <3>2. CASE ~(i <= n)
      <4>1. i = n + 1 /\ i - 1 = n /\ i \in 0 .. (n + 1) /\ n \in 0 .. (n + 1)
        BY <3>2
      <4> QED BY <3>2, <4>1
    <3> QED BY <3>1, <3>2
  <2> HIDE DEF e
  <2>5. Holds(n + 1)
    BY <2>2, <2>3, <2>4
  <2> QED BY <2>5
<1> HIDE DEF Holds
<1>3. Nat \subseteq S
  <2> HIDE DEF S
  <2> QED BY <1>1, <1>2, SetInduction
<1> QED BY <1>3 DEF Holds, Iterates

\* An injective enumeration as long as its finite set reaches every member.
LEMMA InjectiveFills ==
    ASSUME NEW S, IsFiniteSet(S), NEW f \in [1 .. Cardinality(S) -> S], IsInjective(f)
    PROVE  \A x \in S : \E i \in 1 .. Cardinality(S) : f[i] = x
<1>1. Cardinality(S) \in Nat
  BY FS_CardinalityType
<1>2. IsFiniteSet(1 .. Cardinality(S)) /\ Cardinality(1 .. Cardinality(S)) = Cardinality(S)
  BY <1>1, FS_Interval
<1>3. f \in Injection(1 .. Cardinality(S), S)
  BY DEF Injection, IsInjective
<1>4. f \in Surjection(1 .. Cardinality(S), S)
  BY <1>2, <1>3, FS_Injection
<1> QED BY <1>4 DEF Surjection

\* A finite set of natural numbers can be listed in increasing order.
LEMMA SortedExists ==
    ASSUME NEW S, S \subseteq Nat, IsFiniteSet(S)
    PROVE  \E s \in [1 .. Cardinality(S) -> S] : \A i, j \in DOMAIN s : i < j => s[i] < s[j]
<1> DEFINE Listed(T, n) == \E s \in [1 .. n -> T] : \A i, j \in DOMAIN s : i < j => s[i] < s[j]
           Holds(n) == \A T \in SUBSET Nat : IsFiniteSet(T) /\ Cardinality(T) = n => Listed(T, n)
           H == {n \in Nat : Holds(n)}
<1>1. 0 \in H
  <2>1. ASSUME NEW T \in SUBSET Nat PROVE Listed(T, 0)
    <3> DEFINE s == [i \in 1 .. 0 |-> 0]
    <3>1. 1 .. 0 = {}
      OBVIOUS
    <3>2. s \in [1 .. 0 -> T] /\ DOMAIN s = {}
      BY <3>1
    <3> HIDE DEF s
    <3> QED BY <3>2
  <2> QED BY <2>1
<1>2. ASSUME NEW n \in Nat, n \in H PROVE n + 1 \in H
  <2>1. ASSUME NEW T \in SUBSET Nat, IsFiniteSet(T), Cardinality(T) = n + 1
        PROVE  Listed(T, n + 1)
    <3>1. T # {}
      BY <2>1, FS_EmptySet
    <3> DEFINE m == Min(T)
               U == T \ {m}
    <3>2. m \in T /\ \A y \in T : m <= y
      BY <3>1, NatMin
    <3> HIDE DEF m
    <3>3. IsFiniteSet(U) /\ Cardinality(U) = n
      <4>1. IsFiniteSet(U) /\ Cardinality(U) = Cardinality(T) - 1
        BY <2>1, <3>2, FS_RemoveElement
      <4> QED BY <2>1, <4>1
    <3>4. PICK u \in [1 .. n -> U] : \A i, j \in DOMAIN u : i < j => u[i] < u[j]
      BY <1>2, <3>3
    <3> DEFINE s == [i \in 1 .. (n + 1) |-> IF i = 1 THEN m ELSE u[i - 1]]
    <3>5. s \in [1 .. (n + 1) -> T] /\ DOMAIN s = 1 .. (n + 1)
      BY <3>2, <3>4
    <3>6. ASSUME NEW i \in 1 .. (n + 1), NEW j \in 1 .. (n + 1), i < j
          PROVE  s[i] < s[j]
      <4>1. j # 1 /\ j - 1 \in 1 .. n /\ s[j] = u[j - 1]
        BY <3>6
      <4>2. CASE i = 1
        <5>1. s[i] = m
          BY <4>2
        <5>2. u[j - 1] \in U
          BY <4>1
        <5>3. m \in Nat /\ u[j - 1] \in Nat /\ m <= u[j - 1] /\ m # u[j - 1]
          BY <3>2, <5>2
        <5> QED BY <4>1, <5>1, <5>3
      <4>3. CASE i # 1
        <5>1. i - 1 \in 1 .. n /\ s[i] = u[i - 1] /\ i - 1 < j - 1
          BY <3>6, <4>3
        <5> QED BY <3>4, <4>1, <5>1
      <4> QED BY <4>2, <4>3
    <3> HIDE DEF s
    <3> QED BY <3>5, <3>6
  <2> QED BY <2>1
<1> HIDE DEF Holds
<1>3. Nat \subseteq H
  <2> HIDE DEF H
  <2> QED BY <1>1, <1>2, SetInduction
<1>4. Cardinality(S) \in Nat
  BY FS_CardinalityType
<1>5. Holds(Cardinality(S))
  BY <1>3, <1>4
<1> QED BY <1>5 DEF Holds

-----------------------------------------------------------------------------
(* The keys a command is asked for are a finite set of numbers.            *)

\* Cardinality makes sense of every set of keys.
LEMMA KeysFinite ==
    ASSUME NEW g, NEW sol \in SUBSET Keys
    PROVE  /\ IsFiniteSet(sol) /\ Cardinality(sol) \in Nat
           /\ Cardinality(sol) <= NumKeys /\ (Cardinality(sol) = NumKeys => sol = Keys)
<1>1. NumKeys \in Nat /\ IsFiniteSet(Keys) /\ Cardinality(Keys) = NumKeys
  BY FS_Interval, EmergeAssumption DEF Keys
<1> QED BY <1>1, FS_Subset, FS_CardinalityType

\* Keys are numbers other than 0, which stands for no key.
LEMMA KeysAreNumbers == Keys \subseteq Nat /\ 0 \notin Keys
BY EmergeAssumption DEF Keys

\* buildDepEdges names other keys of the solution only.
LEMMA EdgesInside ==
    ASSUME NEW g, NEW sol, NEW k
    PROVE  buildDepEdges(g, sol, k) \subseteq sol \ {k}
BY DEF buildDepEdges, Meant

-----------------------------------------------------------------------------
(* What a package waits for, directly or not.                              *)

Closed(g, sol, A) == \A q \in A : buildDepEdges(g, sol, q) \subseteq A

Wider(g, sol, A) == A \cup UNION {buildDepEdges(g, sol, q) : q \in A}

\* R lists the stages of Waits: each adds the dependencies of the one before.
Stages(R, g, sol, k) ==
    /\ R \in [0 .. NumKeys -> SUBSET sol]
    /\ R[0] = buildDepEdges(g, sol, k)
    /\ \A i \in 1 .. NumKeys : R[i] = Wider(g, sol, R[i - 1])
    /\ Waits(g, sol, k) = R[NumKeys]

\* The recursion of Waits has a solution.
LEMMA WaitsStages ==
    ASSUME NEW g, NEW sol \in SUBSET Keys, NEW k
    PROVE  \E R : Stages(R, g, sol, k)
<1> DEFINE a == buildDepEdges(g, sol, k)
           h == [A \in SUBSET sol |-> Wider(g, sol, A)]
           P(R) == R = [i \in 0 .. NumKeys |->
                          IF i = 0 THEN buildDepEdges(g, sol, k)
                          ELSE R[i - 1] \cup UNION {buildDepEdges(g, sol, q) : q \in R[i - 1]}]
<1>1. a \in SUBSET sol /\ NumKeys \in Nat
  BY EdgesInside, EmergeAssumption
<1>2. h \in [SUBSET sol -> SUBSET sol]
  <2>1. ASSUME NEW A \in SUBSET sol PROVE Wider(g, sol, A) \in SUBSET sol
    BY EdgesInside DEF Wider
  <2> QED BY <2>1
<1>3. PICK it \in [0 .. NumKeys -> SUBSET sol] :
        it[0] = a /\ \A i \in 1 .. NumKeys : it[i] = h[it[i - 1]]
  <2> DEFINE X == SUBSET sol
  <2>1. a \in X /\ h \in [X -> X]
    BY <1>1, <1>2
  <2> HIDE DEF a, h, X
  <2>2. \E it : Iterates(it, X, a, h, NumKeys)
    BY <1>1, <2>1, Iteration
  <2> QED BY <2>2 DEF X, Iterates
<1>4. P(it)
  <2>1. ASSUME NEW i \in 0 .. NumKeys, i # 0
        PROVE  it[i] = it[i - 1] \cup UNION {buildDepEdges(g, sol, q) : q \in it[i - 1]}
    <3>1. i \in 1 .. NumKeys /\ i - 1 \in 0 .. NumKeys
      BY <1>1, <2>1
    <3>2. it[i] = h[it[i - 1]] /\ it[i - 1] \in SUBSET sol
      BY <1>3, <3>1
    <3> QED BY <3>2 DEF Wider
  <2> QED BY <1>3, <2>1
<1> DEFINE W == CHOOSE R : P(R)
<1>5. P(W)
  <2> HIDE DEF P
  <2> QED BY <1>4
<1>6. Waits(g, sol, k) = W[NumKeys]
  BY DEF Waits
<1> HIDE DEF W
<1>7. W[0] = a /\ \A i \in 1 .. NumKeys : W[i] = Wider(g, sol, W[i - 1])
  <2>1. W[0] = a
    BY <1>1, <1>5
  <2>2. ASSUME NEW i \in 1 .. NumKeys
        PROVE  W[i] = W[i - 1] \cup UNION {buildDepEdges(g, sol, q) : q \in W[i - 1]}
    <3>1. i \in 0 .. NumKeys /\ i # 0
      BY <1>1
    <3> QED BY <1>5, <3>1, Zenon
  <2> QED BY <2>1, <2>2 DEF Wider
<1>8. \A i \in 0 .. NumKeys : W[i] \in SUBSET sol
  <2> DEFINE S == {n \in Nat : n <= NumKeys => W[n] \in SUBSET sol}
  <2>1. 0 \in S
    BY <1>1, <1>7
  <2>2. ASSUME NEW n \in Nat, n \in S PROVE n + 1 \in S
    <3> SUFFICES ASSUME n + 1 <= NumKeys PROVE W[n + 1] \in SUBSET sol
      OBVIOUS
    <3>1. n + 1 \in 1 .. NumKeys /\ (n + 1) - 1 = n /\ W[n] \in SUBSET sol
      BY <1>1, <2>2
    <3> QED BY <1>7, <3>1, EdgesInside DEF Wider
  <2>3. Nat \subseteq S
    <3> HIDE DEF S
    <3> QED BY <2>1, <2>2, SetInduction
  <2> QED BY <1>1, <2>3
<1>9. W \in [0 .. NumKeys -> SUBSET sol]
  <2>1. DOMAIN W = 0 .. NumKeys /\ W = [i \in 0 .. NumKeys |-> W[i]]
    BY <1>5
  <2> QED BY <1>8, <2>1
<1> QED BY <1>6, <1>7, <1>9 DEF Stages

\* Waits is closed under dependencies after NumKeys stages: until then each
\* stage that is not closed adds a key, and there are only so many.
LEMMA WaitsClosed ==
    ASSUME NEW g, NEW sol \in SUBSET Keys, NEW k
    PROVE  /\ buildDepEdges(g, sol, k) \subseteq Waits(g, sol, k)
           /\ Waits(g, sol, k) \subseteq sol
           /\ Closed(g, sol, Waits(g, sol, k))
<1>0. NumKeys \in Nat
  BY EmergeAssumption
<1>a. PICK R : Stages(R, g, sol, k)
  BY WaitsStages
<1>1. /\ R \in [0 .. NumKeys -> SUBSET sol]
      /\ R[0] = buildDepEdges(g, sol, k)
      /\ \A i \in 1 .. NumKeys : R[i] = Wider(g, sol, R[i - 1])
      /\ Waits(g, sol, k) = R[NumKeys]
  BY <1>a DEF Stages
<1> DEFINE Good(n) == /\ buildDepEdges(g, sol, k) \subseteq R[n]
                      /\ Closed(g, sol, R[n]) \/ Cardinality(R[n]) >= n
           S == {n \in Nat : n <= NumKeys => Good(n)}
<1>2. 0 \in S
  <2>1. R[0] \in SUBSET Keys
    BY <1>0, <1>1
  <2>2. Cardinality(R[0]) \in Nat
    BY <2>1, KeysFinite
  <2> QED BY <1>1, <2>2
<1>3. ASSUME NEW n \in Nat, n \in S PROVE n + 1 \in S
  <2> SUFFICES ASSUME n + 1 <= NumKeys PROVE Good(n + 1)
    OBVIOUS
  <2>1. n + 1 \in 1 .. NumKeys /\ n \in 0 .. NumKeys /\ n + 1 \in 0 .. NumKeys /\ (n + 1) - 1 = n
    BY <1>0
  <2>2. R[n + 1] = Wider(g, sol, R[n]) /\ R[n] \in SUBSET sol /\ R[n + 1] \in SUBSET sol
    BY <1>1, <2>1
  <2>3. Good(n)
    BY <1>3, <2>1
  <2>4. R[n] \subseteq R[n + 1]
    BY <2>2 DEF Wider
  <2>5. CASE Closed(g, sol, R[n])
    <3>1. R[n + 1] = R[n]
      BY <2>2, <2>5 DEF Wider, Closed
    <3> QED BY <2>3, <2>5, <3>1
  <2>6. CASE ~Closed(g, sol, R[n])
    <3>1. Cardinality(R[n]) >= n
      BY <2>3, <2>6
    <3>2. R[n + 1] # R[n]
      BY <2>2, <2>6 DEF Wider, Closed
    <3>3. R[n] \in SUBSET Keys /\ R[n + 1] \in SUBSET Keys
      BY <2>2
    <3>4. /\ Cardinality(R[n]) \in Nat /\ Cardinality(R[n + 1]) \in Nat
          /\ IsFiniteSet(R[n + 1])
      BY <3>3, KeysFinite
    <3>5. Cardinality(R[n]) <= Cardinality(R[n + 1]) /\ Cardinality(R[n]) # Cardinality(R[n + 1])
      BY <2>4, <3>2, <3>4, FS_Subset
    <3>6. Cardinality(R[n + 1]) >= n + 1
      BY <3>1, <3>4, <3>5
    <3> QED BY <2>3, <2>4, <3>6
  <2> QED BY <2>5, <2>6
<1> HIDE DEF Good
<1>4. Nat \subseteq S
  <2> HIDE DEF S
  <2> QED BY <1>2, <1>3, SetInduction
<1>5. Good(NumKeys)
  BY <1>0, <1>4
<1>6. R[NumKeys] \in SUBSET sol
  BY <1>0, <1>1
<1>7. Closed(g, sol, R[NumKeys])
  <2>1. CASE Cardinality(R[NumKeys]) >= NumKeys
    <3>1. R[NumKeys] = Keys
      BY <1>0, <1>6, <2>1, KeysFinite
    <3>2. sol = Keys
      BY <1>6, <3>1
    <3> QED BY <3>1, <3>2, EdgesInside DEF Closed
  <2> QED BY <1>5, <2>1 DEF Good
<1> QED BY <1>1, <1>5, <1>6, <1>7 DEF Good

\* Nothing is in Waits that need not be there.
LEMMA WaitsLeast ==
    ASSUME NEW g, NEW sol \in SUBSET Keys, NEW k, NEW A,
           buildDepEdges(g, sol, k) \subseteq A, Closed(g, sol, A)
    PROVE  Waits(g, sol, k) \subseteq A
<1>0. NumKeys \in Nat
  BY EmergeAssumption
<1>a. PICK R : Stages(R, g, sol, k)
  BY WaitsStages
<1>1. /\ R \in [0 .. NumKeys -> SUBSET sol]
      /\ R[0] = buildDepEdges(g, sol, k)
      /\ \A i \in 1 .. NumKeys : R[i] = Wider(g, sol, R[i - 1])
      /\ Waits(g, sol, k) = R[NumKeys]
  BY <1>a DEF Stages
<1> DEFINE S == {n \in Nat : n <= NumKeys => R[n] \subseteq A}
<1>2. 0 \in S
  BY <1>1
<1>3. ASSUME NEW n \in Nat, n \in S PROVE n + 1 \in S
  <2> SUFFICES ASSUME n + 1 <= NumKeys PROVE R[n + 1] \subseteq A
    OBVIOUS
  <2>1. n + 1 \in 1 .. NumKeys /\ (n + 1) - 1 = n
    BY <1>0
  <2>2. R[n + 1] = Wider(g, sol, R[n]) /\ R[n] \subseteq A
    BY <1>0, <1>1, <1>3, <2>1
  <2> QED BY <2>2 DEF Wider, Closed
<1>4. Nat \subseteq S
  <2> HIDE DEF S
  <2> QED BY <1>2, <1>3, SetInduction
<1> QED BY <1>0, <1>1, <1>4

\* Without a cycle, some member of every nonempty set of keys waits for no
\* other member: the one that waits for the fewest keys.
LEMMA AcyclicHasFirst ==
    ASSUME NEW g, NEW sol \in SUBSET Keys, Acyclic(g, sol), NEW R \in SUBSET sol, R # {}
    PROVE  \E k \in R : buildDepEdges(g, sol, k) \cap R = {}
<1> DEFINE f == [k \in R |-> Cardinality(Waits(g, sol, k))]
<1>1. ASSUME NEW k \in R
      PROVE  Waits(g, sol, k) \in SUBSET Keys /\ Cardinality(Waits(g, sol, k)) \in Nat
  BY WaitsClosed, KeysFinite
<1>2. PICK k \in R : \A q \in R : f[k] <= f[q]
  <2>1. f \in [R -> Nat]
    BY <1>1
  <2> HIDE DEF f
  <2> QED BY <2>1, LeastMeasure
<1>3. ASSUME NEW q \in R, q \in buildDepEdges(g, sol, k) PROVE FALSE
  <2>1. q \in Waits(g, sol, k) /\ Closed(g, sol, Waits(g, sol, k))
    BY <1>3, WaitsClosed
  <2>2. Waits(g, sol, q) \subseteq Waits(g, sol, k)
    <3>1. buildDepEdges(g, sol, q) \subseteq Waits(g, sol, k)
      BY <2>1 DEF Closed
    <3> QED BY <2>1, <3>1, WaitsLeast
  <2>3. q \notin Waits(g, sol, q)
    BY DEF Acyclic
  <2>4. Waits(g, sol, q) # Waits(g, sol, k)
    BY <2>1, <2>3
  <2>5. Cardinality(Waits(g, sol, q)) <= Cardinality(Waits(g, sol, k))
        /\ Cardinality(Waits(g, sol, q)) # Cardinality(Waits(g, sol, k))
    BY <1>1, <2>2, <2>4, FS_Subset, KeysFinite
  <2> QED BY <1>1, <1>2, <2>5
<1> QED BY <1>3

-----------------------------------------------------------------------------
(* topologicalSort.                                                        *)

\* Every key comes after all it waits for.
Ordered(g, sol, r) ==
  \A j \in 1 .. Len(r) : \A q \in buildDepEdges(g, sol, r[j]) : \E m \in 1 .. (j - 1) : r[m] = q

InOrder(g, sol, r) == r \in Seq(sol) /\ IsInjective(r) /\ Ordered(g, sol, r)

\* A turn of the loop takes a key whose dependencies have all been taken.
LEMMA TakeInOrder ==
    ASSUME NEW g, NEW sol \in SUBSET Keys, NEW r, InOrder(g, sol, r)
    PROVE  /\ InOrder(g, sol, Take(g, sol, r))
           /\ \/ Ready(g, sol, r) = {} /\ Take(g, sol, r) = r
              \/ Ready(g, sol, r) # {} /\ Len(Take(g, sol, r)) = Len(r) + 1
<1>0. r \in Seq(sol) /\ IsInjective(r) /\ Ordered(g, sol, r)
  BY DEF InOrder
<1>1. CASE Ready(g, sol, r) = {}
  BY <1>1 DEF Take
<1>2. CASE Ready(g, sol, r) # {}
  <2> DEFINE m == Min(Ready(g, sol, r))
             t == Append(r, m)
  <2>1. Ready(g, sol, r) \subseteq Nat
    <3>1. Ready(g, sol, r) \subseteq sol
      BY DEF Ready
    <3> QED BY <3>1, KeysAreNumbers
  <2>2. m \in Ready(g, sol, r)
    BY <1>2, <2>1, NatMin
  <2>3. m \in sol /\ m \notin Range(r) /\ buildDepEdges(g, sol, m) \subseteq Range(r)
    BY <2>2 DEF Ready
  <2>4. Take(g, sol, r) = t
    BY <1>2 DEF Take
  <2> HIDE DEF m
  <2>5. /\ t \in Seq(sol) /\ Len(t) = Len(r) + 1 /\ t[Len(r) + 1] = m
        /\ \A i \in 1 .. Len(r) : t[i] = r[i]
    BY <1>0, <2>3
  <2> HIDE DEF t
  <2>6. DOMAIN r = 1 .. Len(r) /\ DOMAIN t = 1 .. (Len(r) + 1) /\ Len(r) \in Nat
    BY <1>0, <2>5
  <2>7. IsInjective(t)
    <3> SUFFICES ASSUME NEW i \in 1 .. (Len(r) + 1), NEW j \in 1 .. (Len(r) + 1), t[i] = t[j]
                 PROVE  i = j
      BY <2>6 DEF IsInjective
    <3>1. \A l \in 1 .. Len(r) : r[l] # m
      BY <2>3, <2>6 DEF Range
    <3>2. i \in 1 .. Len(r) \/ i = Len(r) + 1
      BY <2>6
    <3>3. j \in 1 .. Len(r) \/ j = Len(r) + 1
      BY <2>6
    <3>4. CASE i \in 1 .. Len(r) /\ j \in 1 .. Len(r)
      BY <1>0, <2>5, <2>6, <3>4 DEF IsInjective
    <3> QED BY <2>5, <3>1, <3>2, <3>3, <3>4
  <2>8. Ordered(g, sol, t)
    <3> SUFFICES ASSUME NEW j \in 1 .. (Len(r) + 1), NEW q \in buildDepEdges(g, sol, t[j])
                 PROVE  \E l \in 1 .. (j - 1) : t[l] = q
      BY <2>5 DEF Ordered
    <3>1. CASE j = Len(r) + 1
      <4>1. q \in Range(r)
        BY <2>3, <2>5, <3>1
      <4>2. PICK l \in 1 .. Len(r) : r[l] = q
        BY <2>6, <4>1 DEF Range
      <4> QED BY <2>5, <2>6, <3>1, <4>2
    <3>2. CASE j # Len(r) + 1
      <4>1. j \in 1 .. Len(r) /\ t[j] = r[j]
        BY <2>5, <2>6, <3>2
      <4>2. PICK l \in 1 .. (j - 1) : r[l] = q
        BY <1>0, <4>1 DEF Ordered
      <4>3. l \in 1 .. Len(r)
        BY <2>6, <4>1
      <4> QED BY <2>5, <4>2, <4>3
    <3> QED BY <3>1, <3>2
  <2> QED BY <1>2, <2>4, <2>5, <2>7, <2>8 DEF InOrder
<1> QED BY <1>1, <1>2

\* The loop exists: Taken repeats Take from the empty sequence.
LEMMA TakenStages ==
    ASSUME NEW g, NEW sol \in SUBSET Keys
    PROVE  /\ Taken(g, sol)[0] = <<>>
           /\ \A i \in 1 .. Cardinality(sol) : Taken(g, sol)[i] = Take(g, sol, Taken(g, sol)[i - 1])
<1> DEFINE N == Cardinality(sol)
           X == {r \in Seq(sol) : InOrder(g, sol, r)}
           h == [r \in X |-> Take(g, sol, r)]
           P(R) == R = [i \in 0 .. N |-> IF i = 0 THEN <<>> ELSE Take(g, sol, R[i - 1])]
<1>1. N \in Nat
  BY KeysFinite
<1>2. <<>> \in X
  <2>1. <<>> \in Seq(sol) /\ Len(<<>>) = 0 /\ DOMAIN <<>> = {}
    OBVIOUS
  <2>2. IsInjective(<<>>) /\ Ordered(g, sol, <<>>)
    BY <2>1 DEF IsInjective, Ordered
  <2> QED BY <2>1, <2>2 DEF InOrder
<1>3. h \in [X -> X]
  <2>1. ASSUME NEW r \in X PROVE Take(g, sol, r) \in X
    BY TakeInOrder DEF InOrder
  <2> QED BY <2>1
<1>4. PICK it : Iterates(it, X, <<>>, h, N)
  <2> HIDE DEF h, X, N
  <2> QED BY <1>1, <1>2, <1>3, Iteration
<1>5. P(it)
  <2>1. it \in [0 .. N -> X] /\ it[0] = <<>> /\ \A i \in 1 .. N : it[i] = h[it[i - 1]]
    BY <1>4 DEF Iterates
  <2>2. ASSUME NEW i \in 0 .. N, i # 0 PROVE it[i] = Take(g, sol, it[i - 1])
    <3>1. i \in 1 .. N /\ i - 1 \in 0 .. N
      BY <1>1, <2>2
    <3>2. it[i] = h[it[i - 1]] /\ it[i - 1] \in X
      BY <2>1, <3>1
    <3> QED BY <3>2
  <2> HIDE DEF X
  <2> QED BY <2>1, <2>2
<1> DEFINE W == CHOOSE R : P(R)
<1>6. P(W)
  <2> HIDE DEF P
  <2> QED BY <1>5
<1>7. Taken(g, sol) = W
  BY DEF Taken
<1> HIDE DEF W
<1>8. W[0] = <<>>
  BY <1>1, <1>6
<1>9. ASSUME NEW i \in 1 .. N PROVE W[i] = Take(g, sol, W[i - 1])
  <2>1. i \in 0 .. N /\ i # 0
    BY <1>1
  <2> QED BY <1>6, <2>1, Zenon
<1> QED BY <1>7, <1>8, <1>9

\* After as many turns as there are keys, the queue is empty or every key has
\* been taken; what has been taken is in order.
LEMMA TakenInOrder ==
    ASSUME NEW g, NEW sol \in SUBSET Keys
    PROVE  LET r == Taken(g, sol)[Cardinality(sol)]
           IN  InOrder(g, sol, r) /\ (Ready(g, sol, r) = {} \/ Range(r) = sol)
<1> DEFINE N == Cardinality(sol)
           T == Taken(g, sol)
           Good(n) == InOrder(g, sol, T[n]) /\ (Ready(g, sol, T[n]) = {} \/ Len(T[n]) = n)
           S == {n \in Nat : n <= N => Good(n)}
<1>0. N \in Nat /\ IsFiniteSet(sol)
  BY KeysFinite
<1>1. 0 \in S
  <2>1. T[0] = <<>>
    BY TakenStages
  <2>2. <<>> \in Seq(sol) /\ Len(<<>>) = 0 /\ DOMAIN <<>> = {}
    OBVIOUS
  <2>3. IsInjective(<<>>) /\ Ordered(g, sol, <<>>)
    BY <2>2 DEF IsInjective, Ordered
  <2> HIDE DEF T
  <2> QED BY <2>1, <2>2, <2>3 DEF InOrder
<1>2. ASSUME NEW n \in Nat, n \in S PROVE n + 1 \in S
  <2> SUFFICES ASSUME n + 1 <= N PROVE Good(n + 1)
    OBVIOUS
  <2>1. n + 1 \in 1 .. N /\ (n + 1) - 1 = n /\ n <= N
    BY <1>0
  <2>2. T[n + 1] = Take(g, sol, T[n])
    BY <2>1, TakenStages
  <2>3. Good(n)
    BY <1>2, <2>1
  <2> HIDE DEF T
  <2>4. /\ InOrder(g, sol, T[n + 1])
        /\ \/ Ready(g, sol, T[n]) = {} /\ T[n + 1] = T[n]
           \/ Ready(g, sol, T[n]) # {} /\ Len(T[n + 1]) = Len(T[n]) + 1
    BY <2>2, <2>3, TakeInOrder
  <2>5. CASE Ready(g, sol, T[n]) = {}
    BY <2>4, <2>5
  <2>6. CASE Ready(g, sol, T[n]) # {}
    BY <2>3, <2>4, <2>6
  <2> QED BY <2>5, <2>6
<1> HIDE DEF Good, T
<1>3. Nat \subseteq S
  <2> HIDE DEF S
  <2> QED BY <1>1, <1>2, SetInduction
<1>4. Good(N)
  BY <1>0, <1>3
<1>5. ASSUME Len(T[N]) = N PROVE Range(T[N]) = sol
  <2>1. T[N] \in Seq(sol) /\ IsInjective(T[N])
    BY <1>4 DEF Good, InOrder
  <2>2. T[N] \in [1 .. N -> sol] /\ DOMAIN T[N] = 1 .. N
    BY <1>5, <2>1
  <2>3. \A x \in sol : \E i \in 1 .. N : T[N][i] = x
    BY <1>0, <2>1, <2>2, InjectiveFills
  <2> QED BY <2>2, <2>3 DEF Range
<1> QED BY <1>4, <1>5 DEF Good, T

\* sortSlotKeys lists each key of its argument.
LEMMA SortedKeys ==
    ASSUME NEW A \in SUBSET Keys
    PROVE  sortSlotKeys(A) \in Seq(A) /\ Range(sortSlotKeys(A)) = A
<1>1. A \subseteq Nat /\ IsFiniteSet(A) /\ Cardinality(A) \in Nat
  BY KeysAreNumbers, KeysFinite
<1> DEFINE s == sortSlotKeys(A)
<1>2. \E u \in [1 .. Cardinality(A) -> A] : \A i, j \in DOMAIN u : i < j => u[i] < u[j]
  BY <1>1, SortedExists
<1>3. /\ s \in [1 .. Cardinality(A) -> A]
      /\ \A i, j \in DOMAIN s : i < j => s[i] < s[j]
  BY <1>2 DEF sortSlotKeys
<1> HIDE DEF s
<1>4. IsInjective(s)
  <2> SUFFICES ASSUME NEW i \in 1 .. Cardinality(A), NEW j \in 1 .. Cardinality(A), s[i] = s[j]
               PROVE  i = j
    BY <1>3 DEF IsInjective
  <2>0. s[i] \in Nat /\ s[i] = s[j]
    BY <1>1, <1>3
  <2>1. ~(s[i] < s[j]) /\ ~(s[j] < s[i])
    BY <2>0
  <2>2. ~(i < j) /\ ~(j < i)
    BY <1>3, <2>1
  <2> QED BY <1>1, <2>2
<1>5. \A x \in A : \E i \in 1 .. Cardinality(A) : s[i] = x
  BY <1>1, <1>3, <1>4, InjectiveFills
<1>6. Range(s) = A
  BY <1>3, <1>5 DEF Range
<1>7. s \in Seq(A)
  BY <1>1, <1>3
<1> QED BY <1>6, <1>7 DEF s

\* The build order holds every key of the solution and no other; unless there
\* is a cycle, each key comes after all it waits for.
THEOREM BuildOrder ==
    ASSUME NEW g, NEW sol \in SUBSET Keys
    PROVE  /\ topologicalSort(g, sol) \in Seq(sol)
           /\ Range(topologicalSort(g, sol)) = sol
           /\ Acyclic(g, sol) => Ordered(g, sol, topologicalSort(g, sol))
<1> DEFINE r == Taken(g, sol)[Cardinality(sol)]
           A == sol \ Range(r)
           s == sortSlotKeys(A)
<1>1. InOrder(g, sol, r) /\ (Ready(g, sol, r) = {} \/ Range(r) = sol)
  BY TakenInOrder
<1>2. topologicalSort(g, sol) = r \o s
  BY DEF topologicalSort
<1>3. s \in Seq(A) /\ Range(s) = A
  BY SortedKeys
<1> HIDE DEF r, s
<1>4. r \in Seq(sol) /\ s \in Seq(sol)
  BY <1>1, <1>3 DEF InOrder
<1>5. DOMAIN r = 1 .. Len(r) /\ DOMAIN s = 1 .. Len(s) /\ Len(r) \in Nat /\ Len(s) \in Nat
  BY <1>4
<1>6. /\ r \o s \in Seq(sol) /\ DOMAIN (r \o s) = 1 .. (Len(r) + Len(s))
      /\ \A i \in 1 .. (Len(r) + Len(s)) :
           (r \o s)[i] = IF i <= Len(r) THEN r[i] ELSE s[i - Len(r)]
  BY <1>4, <1>5
<1>7. Range(r \o s) = sol
  <2>1. Range(r \o s) \subseteq sol
    BY <1>6 DEF Range
  <2>2. ASSUME NEW x \in sol PROVE x \in Range(r \o s)
    <3>1. CASE x \in Range(r)
      <4>1. PICK i \in 1 .. Len(r) : r[i] = x
        BY <1>5, <3>1 DEF Range
      <4>2. i \in 1 .. (Len(r) + Len(s)) /\ i <= Len(r)
        BY <1>5
      <4>3. (r \o s)[i] = x
        BY <1>6, <4>1, <4>2
      <4> QED BY <1>6, <4>2, <4>3 DEF Range
    <3>2. CASE x \notin Range(r)
      <4>1. PICK i \in 1 .. Len(s) : s[i] = x
        BY <1>3, <1>5, <3>2 DEF Range
      <4>2. Len(r) + i \in 1 .. (Len(r) + Len(s)) /\ ~(Len(r) + i <= Len(r)) /\ (Len(r) + i) - Len(r) = i
        BY <1>5
      <4>3. (r \o s)[Len(r) + i] = x
        BY <1>6, <4>1, <4>2
      <4> QED BY <1>6, <4>2, <4>3 DEF Range
    <3> QED BY <3>1, <3>2
  <2> QED BY <2>1, <2>2
<1>8. ASSUME Acyclic(g, sol) PROVE Ordered(g, sol, r \o s)
  <2>1. Range(r) = sol
    <3> SUFFICES ASSUME A # {} PROVE FALSE
      <4>1. Range(r) \subseteq sol
        BY <1>4, <1>5 DEF Range
      <4> QED BY <4>1
    <3>1. PICK k \in A : buildDepEdges(g, sol, k) \cap A = {}
      <4>1. A \in SUBSET sol
        OBVIOUS
      <4> HIDE DEF A
      <4> QED BY <1>8, <4>1, AcyclicHasFirst
    <3>2. buildDepEdges(g, sol, k) \subseteq Range(r)
      BY <3>1, EdgesInside
    <3>3. k \in Ready(g, sol, r)
      BY <3>1, <3>2 DEF Ready
    <3> QED BY <1>1, <3>1, <3>3
  <2>2. s = <<>>
    <3>1. Range(s) = {}
      BY <1>3, <2>1
    <3>2. Len(s) = 0
      <4>1. 1 \notin DOMAIN s
        BY <3>1 DEF Range
      <4> QED BY <1>5, <4>1
    <3> QED BY <1>4, <3>2
  <2>3. r \o s = r
    BY <1>4, <2>2
  <2> QED BY <1>1, <2>3 DEF InOrder
<1> QED BY <1>2, <1>6, <1>7, <1>8

-----------------------------------------------------------------------------
(* What becomes of the order as a command goes on; r is its state before   *)
(* a step and s after it.                                                  *)

\* Taking the first member of a sequence leaves the others.
LEMMA RangeOfTail ==
    ASSUME NEW S, NEW o \in Seq(S), o # <<>>
    PROVE  /\ Head(o) \in S /\ Tail(o) \in Seq(S)
           /\ Range(o) = {Head(o)} \cup Range(Tail(o))
           /\ Len(Tail(o)) = Len(o) - 1 /\ Len(o) \in Nat \ {0}
           /\ \A i \in 1 .. Len(Tail(o)) : Tail(o)[i] = o[i + 1]
<1>1. /\ Head(o) \in S /\ Tail(o) \in Seq(S) /\ Head(o) = o[1]
      /\ Len(Tail(o)) = Len(o) - 1 /\ Len(o) \in Nat \ {0}
      /\ \A i \in 1 .. Len(Tail(o)) : Tail(o)[i] = o[i + 1]
  OBVIOUS
<1> DEFINE t == Tail(o)
<1>2. DOMAIN o = 1 .. Len(o) /\ DOMAIN t = 1 .. Len(t)
  BY <1>1
<1> HIDE DEF t
<1>3. ASSUME NEW x \in Range(o) PROVE x \in {Head(o)} \cup Range(t)
  <2>1. PICK i \in 1 .. Len(o) : o[i] = x
    BY <1>2, <1>3 DEF Range
  <2>2. CASE i = 1
    BY <1>1, <2>1, <2>2
  <2>3. CASE i # 1
    <3>1. i - 1 \in 1 .. Len(t) /\ (i - 1) + 1 = i
      BY <1>1, <2>3 DEF t
    <3>2. t[i - 1] = x
      BY <1>1, <2>1, <3>1 DEF t
    <3> QED BY <1>2, <3>1, <3>2 DEF Range
  <2> QED BY <2>2, <2>3
<1>4. ASSUME NEW x \in Range(t) PROVE x \in Range(o)
  <2>1. PICK i \in 1 .. Len(t) : t[i] = x
    BY <1>2, <1>4 DEF Range
  <2>2. i + 1 \in 1 .. Len(o) /\ o[i + 1] = x
    BY <1>1, <2>1 DEF t
  <2> QED BY <1>2, <2>2 DEF Range
<1>5. Head(o) \in Range(o)
  BY <1>1, <1>2 DEF Range
<1>6. Range(o) = {Head(o)} \cup Range(t)
  BY <1>3, <1>4, <1>5
<1> QED BY <1>1, <1>6 DEF t

\* A package that is kept is passed over.
LEMMA KeptInOrder ==
    ASSUME NEW g, NEW r \in CommandState, NEW s \in CommandState,
           r.pc = "next", r.at = 0, r.order # <<>>, Head(r.order) \in r.keep,
           s.order = Tail(r.order), s.at = 0, s.done = r.done, s.keep = r.keep,
           s.keepGoing = r.keepGoing, InBuildOrder(g, r)
    PROVE  InBuildOrder(g, s)
<1> DEFINE o == r.order
           t == s.order
<1>1. o \in Seq(Keys) /\ o # <<>> /\ t = Tail(o)
  BY DEF CommandState
<1>2. /\ Range(o) = {Head(o)} \cup Range(t) /\ Len(t) = Len(o) - 1 /\ Len(o) \in Nat \ {0}
      /\ \A i \in 1 .. Len(t) : t[i] = o[i + 1]
  BY <1>1, RangeOfTail
<1>3. Asked(s) = Asked(r) /\ Settled(s) = Settled(r)
  BY <1>2 DEF Asked, Settled
<1> SUFFICES ASSUME ~s.keepGoing, Acyclic(g, Asked(s))
             PROVE  \A i \in 1 .. Len(t) : \A q \in buildDepEdges(g, Asked(s), t[i]) :
                      q \in Settled(s) \/ q = s.at \/ \E j \in 1 .. (i - 1) : t[j] = q
  BY DEF InBuildOrder
<1> TAKE i \in 1 .. Len(t)
<1> TAKE q \in buildDepEdges(g, Asked(s), t[i])
<1>4. i + 1 \in 1 .. Len(o) /\ t[i] = o[i + 1]
  BY <1>2
<1>5. q \in Settled(r) \/ q = r.at \/ \E j \in 1 .. i : o[j] = q
  <2>1. (i + 1) - 1 = i
    OBVIOUS
  <2> QED BY <1>3, <1>4, <2>1 DEF InBuildOrder
<1>6. ASSUME NEW j \in 1 .. i, o[j] = q
      PROVE  q \in Settled(s) \/ \E m \in 1 .. (i - 1) : t[m] = q
  <2>1. CASE j = 1
    BY <1>1, <1>6, <2>1 DEF Settled
  <2>2. CASE j # 1
    <3>1. j - 1 \in 1 .. (i - 1) /\ j - 1 \in 1 .. Len(t) /\ (j - 1) + 1 = j
      BY <1>2, <2>2
    <3> QED BY <1>2, <1>6, <3>1
  <2> QED BY <2>1, <2>2
<1> QED BY <1>3, <1>5, <1>6

\* The first package of the order may be built: what it waits for is settled.
LEMMA TakenPackageInOrder ==
    ASSUME NEW g, NEW r \in CommandState, NEW s \in CommandState,
           r.pc = "next", r.at = 0, r.order # <<>>,
           s.order = Tail(r.order), s.at = Head(r.order), s.done = r.done, s.keep = r.keep,
           s.keepGoing = r.keepGoing, InBuildOrder(g, r)
    PROVE  InBuildOrder(g, s)
<1> DEFINE o == r.order
           t == s.order
           k == Head(o)
<1>1. o \in Seq(Keys) /\ o # <<>> /\ t = Tail(o) /\ s.at = k
  BY DEF CommandState
<1>2. /\ Range(o) = {k} \cup Range(t) /\ Len(t) = Len(o) - 1 /\ Len(o) \in Nat \ {0}
      /\ \A i \in 1 .. Len(t) : t[i] = o[i + 1]
      /\ k \in Keys /\ k = o[1]
  BY <1>1, RangeOfTail
<1>3. k # 0 /\ 0 \notin Asked(r)
  <2>1. Range(o) \subseteq Keys
    BY <1>1 DEF Range
  <2>2. r.done \subseteq Keys /\ r.keep \subseteq Keys
    BY DEF CommandState
  <2> QED BY <1>2, <2>1, <2>2, KeysAreNumbers DEF Asked
<1>4. Asked(s) = Asked(r) /\ Settled(s) = Settled(r)
  BY <1>1, <1>2, <1>3 DEF Asked, Settled
<1> SUFFICES ASSUME ~s.keepGoing, Acyclic(g, Asked(s))
             PROVE  /\ \A i \in 1 .. Len(t) : \A q \in buildDepEdges(g, Asked(s), t[i]) :
                         q \in Settled(s) \/ q = k \/ \E j \in 1 .. (i - 1) : t[j] = q
                    /\ buildDepEdges(g, Asked(s), k) \subseteq Settled(s)
  BY <1>1 DEF InBuildOrder
<1>5. ASSUME NEW i \in 1 .. Len(o), NEW q \in buildDepEdges(g, Asked(r), o[i])
      PROVE  q \in Settled(r) \/ \E j \in 1 .. (i - 1) : o[j] = q
  <2>1. q # 0
    BY <1>3, EdgesInside
  <2> QED BY <1>4, <2>1 DEF InBuildOrder
<1>6. buildDepEdges(g, Asked(s), k) \subseteq Settled(s)
  <2>1. 1 \in 1 .. Len(o) /\ 1 .. (1 - 1) = {}
    BY <1>2
  <2> QED BY <1>2, <1>4, <1>5, <2>1
<1>7. ASSUME NEW i \in 1 .. Len(t), NEW q \in buildDepEdges(g, Asked(s), t[i])
      PROVE  q \in Settled(s) \/ q = k \/ \E j \in 1 .. (i - 1) : t[j] = q
  <2>1. i + 1 \in 1 .. Len(o) /\ t[i] = o[i + 1] /\ (i + 1) - 1 = i
    BY <1>2
  <2>2. q \in Settled(r) \/ \E j \in 1 .. i : o[j] = q
    BY <1>4, <1>5, <2>1
  <2>3. ASSUME NEW j \in 1 .. i, o[j] = q PROVE q = k \/ \E m \in 1 .. (i - 1) : t[m] = q
    <3>1. CASE j = 1
      BY <1>2, <2>3, <3>1
    <3>2. CASE j # 1
      <4>1. j - 1 \in 1 .. (i - 1) /\ j - 1 \in 1 .. Len(t) /\ (j - 1) + 1 = j
        BY <1>2, <3>2
      <4> QED BY <1>2, <2>3, <4>1
    <3> QED BY <3>1, <3>2
  <2> QED BY <1>4, <2>2, <2>3
<1> QED BY <1>6, <1>7

\* What is settled may grow by the package in work, and that package may be
\* left once it is settled.
LEMMA SettledInOrder ==
    ASSUME NEW g, NEW r \in CommandState, NEW s \in CommandState,
           r.pc \in Working, r.at # 0,
           s.order = r.order, s.keep = r.keep, s.keepGoing = r.keepGoing,
           \/ s.at = r.at /\ s.done \in {r.done, r.done \cup {r.at}}
           \/ s.at = 0 /\ s.done = r.done /\ r.at \in r.done,
           InBuildOrder(g, r)
    PROVE  InBuildOrder(g, s)
<1>1. Asked(s) = Asked(r) /\ Settled(r) \subseteq Settled(s)
  BY DEF Asked, Settled
<1>2. s.at = r.at \/ r.at \in Settled(s)
  BY DEF Settled
<1> QED BY <1>1, <1>2 DEF InBuildOrder

\* A command starts with a solution in build order.
LEMMA AskedInOrder ==
    ASSUME NEW g, NEW sol \in SUBSET Keys, NEW s \in CommandState,
           s.order = topologicalSort(g, sol), s.at = 0, s.done = {}, s.keep \subseteq sol
    PROVE  InBuildOrder(g, s)
<1>1. s.order \in Seq(sol) /\ Range(s.order) = sol /\ (Acyclic(g, sol) => Ordered(g, sol, s.order))
  BY BuildOrder
<1>2. Asked(s) = sol
  BY <1>1 DEF Asked
<1> QED BY <1>1, <1>2 DEF InBuildOrder, Ordered

-----------------------------------------------------------------------------
(* What each step does to the commands: c moves, the others stay.          *)

Moves(c, s) == s \in CommandState /\ cmd'[c] = s /\ \A b \in Emerges \ {c} : cmd'[b] = cmd[b]

\* A command whose state is replaced moves.
LEMMA Replaced ==
    ASSUME EmergeTypeOK, NEW c \in Emerges, NEW s \in CommandState, cmd' = [cmd EXCEPT ![c] = s]
    PROVE  cmd' \in [Emerges -> CommandState] /\ Moves(c, s)
BY DEF EmergeTypeOK, Moves

\* The records of a command that has not begun, has ended, or is between two
\* packages are well formed.
LEMMA RestingStates ==
    /\ Idle \in CommandState
    /\ \A v \in {"nil", "error", "killed"} : Ended(v) \in CommandState /\ Ended(v).pc = v /\ Ended(v).at = 0
    /\ \A r \in CommandState :
         /\ Rest(r) \in CommandState
         /\ Rest(r).pc = "next" /\ Rest(r).at = 0
         /\ Rest(r).order = r.order /\ Rest(r).keep = r.keep /\ Rest(r).done = r.done
         /\ Rest(r).keepGoing = r.keepGoing /\ Rest(r).failed = r.failed
<1>1. Idle \in CommandState
  <2>1. <<>> \in Seq(Keys) /\ 0 \in 0 .. Len(Phases)
    BY DEF Phases
  <2> QED BY <2>1 DEF Idle, CommandState
<1>2. ASSUME NEW v \in {"nil", "error", "killed"}
      PROVE  Ended(v) \in CommandState /\ Ended(v).pc = v /\ Ended(v).at = 0
  <2>1. Idle.at = 0
    BY DEF Idle
  <2> QED BY <1>1, <2>1 DEF Ended, CommandState
<1>3. ASSUME NEW r \in CommandState
      PROVE  /\ Rest(r) \in CommandState
             /\ Rest(r).pc = "next" /\ Rest(r).at = 0
             /\ Rest(r).order = r.order /\ Rest(r).keep = r.keep /\ Rest(r).done = r.done
             /\ Rest(r).keepGoing = r.keepGoing /\ Rest(r).failed = r.failed
  <2>1. 0 \in 0 .. Len(Phases)
    BY DEF Phases
  <2> QED BY <2>1 DEF Rest, CommandState
<1> QED BY <1>1, <1>2, <1>3

\* Emerge puts the command before its first package.
LEMMA EmergeMoves ==
    ASSUME EmergeTypeOK, NEW c \in Emerges, Emerge(c)
    PROVE  /\ cmd' \in [Emerges -> CommandState]
           /\ \E s, sol : /\ Moves(c, s) /\ sol \in SUBSET Keys
                          /\ s.pc = "next" /\ s.at = 0 /\ s.done = {} /\ s.keep \subseteq sol
                          /\ s.order = topologicalSort(deps, sol)
<1>1. PICK sol \in Solutions[c], o \in Options : \E keep \in SUBSET {k \in sol : merged[k].by # 0} :
        cmd' = [cmd EXCEPT ![c] = [Idle EXCEPT !.pc = "next", !.order = topologicalSort(deps, sol),
                  !.keep = keep, !.keepGoing = o.keepGoing, !.keepWork = o.keepWork,
                  !.enableTests = o.test]]
  BY DEF Emerge
<1>2. PICK keep \in SUBSET {k \in sol : merged[k].by # 0} :
        cmd' = [cmd EXCEPT ![c] = [Idle EXCEPT !.pc = "next", !.order = topologicalSort(deps, sol),
                  !.keep = keep, !.keepGoing = o.keepGoing, !.keepWork = o.keepWork,
                  !.enableTests = o.test]]
  BY <1>1
<1>3. sol \in SUBSET Keys /\ o \in [keepGoing : BOOLEAN, keepWork : BOOLEAN, test : BOOLEAN]
  BY EmergeAssumption
<1>4. topologicalSort(deps, sol) \in Seq(Keys)
  BY <1>3, BuildOrder
<1> DEFINE s == [Idle EXCEPT !.pc = "next", !.order = topologicalSort(deps, sol),
                   !.keep = keep, !.keepGoing = o.keepGoing, !.keepWork = o.keepWork,
                   !.enableTests = o.test]
<1>5. s \in CommandState
  BY <1>3, <1>4, RestingStates DEF CommandState
<1>6. /\ s.pc = "next" /\ s.at = 0 /\ s.done = {} /\ s.keep = keep
      /\ s.order = topologicalSort(deps, sol)
  BY DEF Idle
<1>7. cmd' = [cmd EXCEPT ![c] = s]
  BY <1>2
<1> HIDE DEF s
<1> QED BY <1>3, <1>5, <1>6, <1>7, Replaced

\* NextPackage passes over a kept package or begins to build the first one.
LEMMA NextPackageMoves ==
    ASSUME EmergeTypeOK, NEW c \in Emerges, NextPackage(c)
    PROVE  /\ cmd' \in [Emerges -> CommandState]
           /\ \E s : /\ Moves(c, s)
                     /\ s.order = Tail(cmd[c].order)
                     /\ s.done = cmd[c].done /\ s.keep = cmd[c].keep
                     /\ s.keepGoing = cmd[c].keepGoing
                     /\ \/ /\ Head(cmd[c].order) \in cmd[c].keep
                           /\ s.pc = cmd[c].pc /\ s.at = cmd[c].at
                           /\ UNCHANGED <<faults, crossed>>
                        \/ /\ s.pc = "phase" /\ s.at = Head(cmd[c].order) /\ s.phase = 1
                           /\ s.sure = (Head(cmd[c].order) \notin spoiled)
                           /\ faults' \in 0 .. MaxFaults
                           /\ crossed' = (IF \E b \in Emerges \ {c} : cmd[b].at = s.at
                                          THEN crossed \cup {b \in Emerges \ {c} : cmd[b].at = s.at} \cup {c}
                                          ELSE crossed \ {c})
<1> DEFINE r == cmd[c]
           k == Head(r.order)
<1>1. r \in CommandState /\ r.order \in Seq(Keys) /\ r.order # <<>>
  BY DEF EmergeTypeOK, CommandState, NextPackage
<1>2. Tail(r.order) \in Seq(Keys) /\ k \in Keys
  BY <1>1, RangeOfTail
<1>3. CASE k \in r.keep
  <2> DEFINE s == [r EXCEPT !.order = Tail(r.order)]
  <2>1. cmd' = [cmd EXCEPT ![c] = s] /\ UNCHANGED <<faults, crossed>>
    BY <1>3 DEF NextPackage
  <2>2. /\ s \in CommandState /\ s.order = Tail(r.order) /\ s.done = r.done /\ s.keep = r.keep
        /\ s.keepGoing = r.keepGoing /\ s.pc = r.pc /\ s.at = r.at
    BY <1>1, <1>2 DEF CommandState
  <2> HIDE DEF s
  <2> QED BY <1>3, <2>1, <2>2, Replaced
<1>4. CASE k \notin r.keep
  <2>1. PICK custom \in {Custom[k], {}} :
          /\ faults' = faults + (IF custom = Custom[k] THEN 0 ELSE 1)
          /\ faults' <= MaxFaults
          /\ cmd' = [cmd EXCEPT ![c].order = Tail(r.order), ![c].at = k, ![c].pc = "phase",
                       ![c].phase = 1, ![c].custom = custom, ![c].sure = k \notin spoiled]
    BY <1>4 DEF NextPackage
  <2> DEFINE s == [r EXCEPT !.order = Tail(r.order), !.at = k, !.pc = "phase",
                     !.phase = 1, !.custom = custom, !.sure = k \notin spoiled]
  <2>2. cmd' = [cmd EXCEPT ![c] = s]
    BY <1>1, <2>1 DEF EmergeTypeOK
  <2>3. custom \in SUBSET Range(Phases) /\ 1 \in 0 .. Len(Phases)
    BY <1>2, EmergeAssumption DEF Phases
  <2>4. s \in CommandState
    BY <1>1, <1>2, <2>3 DEF CommandState, Working
  <2>5. /\ s.order = Tail(r.order) /\ s.done = r.done /\ s.keep = r.keep
        /\ s.keepGoing = r.keepGoing /\ s.pc = "phase" /\ s.at = k /\ s.phase = 1
        /\ s.sure = (k \notin spoiled)
    BY <1>1 DEF CommandState
  <2>6. faults' \in 0 .. MaxFaults
    BY <2>1, EmergeAssumption DEF EmergeTypeOK
  <2>7. crossed' = (IF \E b \in Emerges \ {c} : cmd[b].at = k
                    THEN crossed \cup {b \in Emerges \ {c} : cmd[b].at = k} \cup {c}
                    ELSE crossed \ {c})
    BY <1>4 DEF NextPackage
  <2> HIDE DEF s, k
  <2> QED BY <2>2, <2>4, <2>5, <2>6, <2>7, Replaced DEF k
<1> QED BY <1>3, <1>4

\* A build that fails leaves its directory behind; the command ends or, with
\* --keep-going, goes on to its next package.
LEMMA FailedMoves ==
    ASSUME EmergeTypeOK, NEW c \in Emerges, cmd[c].at # 0, Failed(c)
    PROVE  /\ cmd' \in [Emerges -> CommandState] /\ faults' \in 0 .. MaxFaults
           /\ spoiled' = spoiled \cup {cmd[c].at}
           /\ \E s : /\ Moves(c, s) /\ s.at = 0
                     /\ s.pc = "error" \/ (s.pc = "next" /\ s.keepGoing)
<1> DEFINE r == cmd[c]
<1>1. r \in CommandState /\ r.at \in Keys /\ r.keepGoing \in BOOLEAN
  BY DEF EmergeTypeOK, CommandState
<1> DEFINE u == [Rest(r) EXCEPT !.failed = r.failed \cup {r.at}]
<1>2. /\ faults < MaxFaults /\ faults' = faults + 1 /\ spoiled' = spoiled \cup {r.at}
      /\ cmd' = [cmd EXCEPT ![c] = IF r.keepGoing THEN u ELSE Ended("error")]
  BY DEF Failed
<1>a. faults' \in 0 .. MaxFaults
  BY <1>2, EmergeAssumption DEF EmergeTypeOK
<1>3. CASE r.keepGoing
  <2>1. cmd' = [cmd EXCEPT ![c] = u]
    BY <1>2, <1>3
  <2>2. Rest(r) \in CommandState /\ Rest(r).pc = "next" /\ Rest(r).at = 0 /\ Rest(r).keepGoing = r.keepGoing
    BY <1>1, RestingStates
  <2>3. u \in CommandState /\ u.pc = "next" /\ u.at = 0 /\ u.keepGoing = r.keepGoing
    BY <1>1, <2>2 DEF CommandState
  <2> HIDE DEF u
  <2>4. cmd' \in [Emerges -> CommandState] /\ Moves(c, u)
    BY <2>1, <2>3, Replaced
  <2> QED BY <1>2, <1>a, <1>3, <2>3, <2>4
<1>4. CASE ~r.keepGoing
  <2>1. cmd' = [cmd EXCEPT ![c] = Ended("error")]
    BY <1>2, <1>4
  <2>2. Ended("error") \in CommandState /\ Ended("error").pc = "error" /\ Ended("error").at = 0
    BY RestingStates
  <2>3. cmd' \in [Emerges -> CommandState] /\ Moves(c, Ended("error"))
    BY <2>1, <2>2, Replaced
  <2> QED BY <1>2, <1>a, <2>2, <2>3
<1> QED BY <1>3, <1>4

\* A phase that ends well leads to the next phase, or to the merge.
LEMMA PhaseEndsMoves ==
    ASSUME EmergeTypeOK, NEW c \in Emerges, PhaseEnds(c), cmd[c].phase # 0
    PROVE  /\ cmd' \in [Emerges -> CommandState]
           /\ \E s : /\ Moves(c, s) /\ s.pc \in {"phase", "merge"} /\ s.phase # 0
                     /\ s.at = cmd[c].at /\ s.sure = cmd[c].sure
                     /\ s.order = cmd[c].order /\ s.keep = cmd[c].keep /\ s.done = cmd[c].done
                     /\ s.keepGoing = cmd[c].keepGoing
<1> DEFINE r == cmd[c]
           n == IF r.phase = Len(Phases) THEN r.phase ELSE r.phase + 1
           p == IF r.phase = Len(Phases) THEN "merge" ELSE "phase"
           s == [r EXCEPT !.phase = n, !.pc = p]
<1>1. r \in CommandState /\ Len(Phases) = 7 /\ r.phase \in 0 .. 7
  BY DEF EmergeTypeOK, CommandState, Phases
<1>2. n \in 0 .. Len(Phases) /\ n # 0 /\ p \in {"phase", "merge"}
  BY <1>1
<1>3. cmd' = [cmd EXCEPT ![c] = s]
  BY <1>1 DEF EmergeTypeOK, PhaseEnds
<1> HIDE DEF n, p
<1>4. /\ s \in CommandState /\ s.pc = p /\ s.phase = n
      /\ s.at = r.at /\ s.sure = r.sure /\ s.order = r.order /\ s.keep = r.keep
      /\ s.done = r.done /\ s.keepGoing = r.keepGoing
  BY <1>1, <1>2 DEF CommandState, Working
<1> HIDE DEF s
<1>5. cmd' \in [Emerges -> CommandState] /\ Moves(c, s)
  BY <1>3, <1>4, Replaced
<1> QED BY <1>2, <1>4, <1>5

DirState == [work : SUBSET Emerges, image : SUBSET Emerges]

\* A phase adds files of its own command to WORKDIR, and to D files of its own
\* or of those it finds in WORKDIR.
LEMMA OutcomesBounded ==
    ASSUME NEW c \in Emerges, NEW d \in DirState, NEW t \in Outcomes(c, d)
    PROVE  /\ t \in DirState
           /\ t.work \subseteq d.work \cup {c} /\ t.image \subseteq d.image \cup d.work \cup {c}
<1>1. Own(c, d) \in DirState /\ Own(c, d).work = d.work \cup {c} /\ Own(c, d).image = d.image
  BY DEF Own, DirState
<1>2. ASSUME NEW from \in SUBSET (d.work \cup {c}), NEW u \in Filled(from, d)
      PROVE  u \in DirState /\ u.work = d.work /\ u.image \subseteq d.image \cup d.work \cup {c}
  <2>1. PICK w \in SUBSET from : u = [d EXCEPT !.image = @ \cup w]
    BY <1>2 DEF Filled
  <2>2. d.work \subseteq Emerges
    BY DEF DirState
  <2>3. w \subseteq d.work \cup {c} /\ w \subseteq Emerges
    BY <2>2
  <2> QED BY <2>1, <2>3 DEF DirState
<1>3. CASE HasPhaseFunction(c)
  <2>1. t \in RunPhaseFunction(c, d)
    BY <1>3 DEF Outcomes
  <2>2. t \in {d, Own(c, d)} \cup Filled(d.work \cup {c}, d)
    BY <2>1 DEF RunPhaseFunction
  <2> QED BY <1>1, <1>2, <2>2
<1>4. CASE ~HasPhaseFunction(c)
  <2>1. t \in DefaultPhase(c, d)
    BY <1>4 DEF Outcomes
  <2>2. t \in {d, Own(c, d)} \cup Filled(d.work, d)
    BY <2>1 DEF DefaultPhase
  <2> QED BY <1>1, <1>2, <2>2
<1> QED BY <1>3, <1>4

\* A merge settles the package and leaves only the removal of the directory.
LEMMA MergedMoves ==
    ASSUME EmergeTypeOK, NEW c \in Emerges, cmd[c].at # 0,
           cmd' = [cmd EXCEPT ![c].done = @ \cup {cmd[c].at}, ![c].pc = "cleanup"]
    PROVE  /\ cmd' \in [Emerges -> CommandState]
           /\ \E s : /\ Moves(c, s) /\ s.pc = "cleanup"
                     /\ s.at = cmd[c].at /\ s.sure = cmd[c].sure
                     /\ s.order = cmd[c].order /\ s.keep = cmd[c].keep
                     /\ s.done = cmd[c].done \cup {cmd[c].at}
                     /\ s.keepGoing = cmd[c].keepGoing
<1> DEFINE r == cmd[c]
           s == [r EXCEPT !.done = @ \cup {r.at}, !.pc = "cleanup"]
<1>1. r \in CommandState /\ r.at \in Keys
  BY DEF EmergeTypeOK, CommandState
<1>2. cmd' = [cmd EXCEPT ![c] = s]
  BY <1>1 DEF EmergeTypeOK
<1>3. /\ s \in CommandState /\ s.pc = "cleanup" /\ s.at = r.at /\ s.sure = r.sure
      /\ s.order = r.order /\ s.keep = r.keep /\ s.done = r.done \cup {r.at}
      /\ s.keepGoing = r.keepGoing
  BY <1>1 DEF CommandState, Working
<1> HIDE DEF s
<1> QED BY <1>2, <1>3, Replaced

-----------------------------------------------------------------------------
(* Who works where, and what is in the directories.                        *)

Places == SharedIsCrossed /\ OwnDirectory /\ LeftEmpty

\* A command that stays where it is and touches no file.
LEMMA PlacesSame ==
    ASSUME EmergeTypeOK, Places, NEW c \in Emerges, NEW s, Moves(c, s),
           s.at = cmd[c].at, s.at # 0 => s.sure = cmd[c].sure,
           UNCHANGED <<dir, spoiled, crossed>>
    PROVE  Places'
<1>1. \A b \in Emerges : /\ cmd'[b].at = cmd[b].at
                         /\ cmd[b].at # 0 => cmd'[b].sure = cmd[b].sure
  BY DEF Moves
<1>2. SharedIsCrossed'
  BY <1>1 DEF Places, SharedIsCrossed
<1>3. OwnDirectory'
  BY <1>1 DEF Places, OwnDirectory
<1>4. LeftEmpty'
  BY <1>1 DEF Places, LeftEmpty
<1> QED BY <1>2, <1>3, <1>4 DEF Places

\* A command that begins to work on k finds an empty directory, or knows that
\* it cannot be sure, or shares it from now on.
LEMMA PlacesTaken ==
    ASSUME EmergeTypeOK, Places, NEW c \in Emerges, NEW s, Moves(c, s),
           cmd[c].at = 0, s.at \in Keys, s.sure = (s.at \notin spoiled),
           crossed' = (IF \E b \in Emerges \ {c} : cmd[b].at = s.at
                       THEN crossed \cup {b \in Emerges \ {c} : cmd[b].at = s.at} \cup {c}
                       ELSE crossed \ {c}),
           UNCHANGED <<dir, spoiled>>
    PROVE  Places'
<1>0. s.at # 0 /\ cmd'[c] = s /\ \A b \in Emerges \ {c} : cmd'[b] = cmd[b]
  BY KeysAreNumbers DEF Moves
<1> DEFINE here == {b \in Emerges \ {c} : cmd[b].at = s.at}
<1>1. CASE here = {}
  <2>1. crossed' = crossed \ {c}
    BY <1>1
  <2>2. \A b \in Emerges : cmd[b].at # s.at
    BY <1>0, <1>1
  <2>3. SharedIsCrossed'
    BY <1>0, <2>1, <2>2 DEF Places, SharedIsCrossed
  <2>4. OwnDirectory'
    <3>1. s.at \notin spoiled => dir[s.at] = NoFiles
      BY <2>2 DEF Places, LeftEmpty
    <3>2. ASSUME NEW b \in Emerges, cmd'[b].at # 0, cmd'[b].sure, b \notin crossed'
          PROVE  dir'[cmd'[b].at].work \cup dir'[cmd'[b].at].image \subseteq {b}
      <4>1. CASE b = c
        <5>1. dir'[cmd'[b].at] = NoFiles
          BY <1>0, <3>1, <3>2, <4>1
        <5> QED BY <5>1 DEF NoFiles
      <4>2. CASE b # c
        BY <1>0, <2>1, <3>2, <4>2 DEF Places, OwnDirectory
      <4> QED BY <4>1, <4>2
    <3> QED BY <3>2 DEF OwnDirectory
  <2>5. LeftEmpty'
    <3>1. ASSUME NEW k \in Keys, k \notin spoiled, \A b \in Emerges : cmd'[b].at # k
          PROVE  dir'[k] = NoFiles
      <4>1. \A b \in Emerges : cmd[b].at # k
        BY <1>0, <3>1, KeysAreNumbers
      <4> QED BY <3>1, <4>1 DEF Places, LeftEmpty
    <3> QED BY <3>1 DEF LeftEmpty
  <2> QED BY <2>3, <2>4, <2>5 DEF Places
<1>2. CASE here # {}
  <2>1. crossed' = crossed \cup here \cup {c}
    BY <1>2
  <2>2. SharedIsCrossed'
    <3>1. ASSUME NEW b \in Emerges, NEW d \in Emerges, b # d,
                 cmd'[b].at = cmd'[d].at, cmd'[d].at # 0
          PROVE  b \in crossed' /\ d \in crossed'
      <4>1. CASE b # c /\ d # c
        BY <1>0, <2>1, <3>1, <4>1 DEF Places, SharedIsCrossed
      <4>2. CASE b = c
        BY <1>0, <2>1, <3>1, <4>2
      <4>3. CASE d = c
        BY <1>0, <2>1, <3>1, <4>3
      <4> QED BY <4>1, <4>2, <4>3
    <3> QED BY <3>1 DEF SharedIsCrossed
  <2>3. OwnDirectory'
    BY <1>0, <2>1 DEF Places, OwnDirectory
  <2>4. LeftEmpty'
    <3>1. ASSUME NEW k \in Keys, k \notin spoiled, \A b \in Emerges : cmd'[b].at # k
          PROVE  dir'[k] = NoFiles
      <4>1. \A b \in Emerges : cmd[b].at # k
        BY <1>0, <3>1, KeysAreNumbers
      <4> QED BY <3>1, <4>1 DEF Places, LeftEmpty
    <3> QED BY <3>1 DEF LeftEmpty
  <2> QED BY <2>2, <2>3, <2>4 DEF Places
<1> QED BY <1>1, <1>2

\* A phase works in the directory of its package and in no other.
LEMMA PlacesPhase ==
    ASSUME EmergeTypeOK, Places, NEW c \in Emerges, NEW s, Moves(c, s),
           cmd[c].at \in Keys, s.at = cmd[c].at, s.sure = cmd[c].sure,
           NEW t \in DirState, dir' = [dir EXCEPT ![cmd[c].at] = t],
           t.work \subseteq dir[cmd[c].at].work \cup {c},
           t.image \subseteq dir[cmd[c].at].image \cup dir[cmd[c].at].work \cup {c},
           UNCHANGED <<spoiled, crossed>>
    PROVE  Places'
<1> DEFINE k == cmd[c].at
<1>0. k # 0 /\ \A b \in Emerges : cmd'[b].at = cmd[b].at /\ cmd'[b].sure = cmd[b].sure
  BY KeysAreNumbers DEF Moves
<1>1. dir'[k] = t /\ \A j \in Keys \ {k} : dir'[j] = dir[j]
  BY DEF EmergeTypeOK
<1>2. SharedIsCrossed'
  BY <1>0 DEF Places, SharedIsCrossed
<1>3. OwnDirectory'
  <2>1. ASSUME NEW b \in Emerges, cmd[b].at # 0, cmd[b].sure, b \notin crossed
        PROVE  dir'[cmd[b].at].work \cup dir'[cmd[b].at].image \subseteq {b}
    <3>1. dir[cmd[b].at].work \cup dir[cmd[b].at].image \subseteq {b} /\ cmd[b].at \in Keys
      BY <2>1 DEF Places, OwnDirectory, EmergeTypeOK, CommandState
    <3>2. CASE b = c
      BY <1>1, <3>1, <3>2
    <3>3. CASE b # c
      <4>1. cmd[b].at # k
        BY <1>0, <2>1, <3>3 DEF Places, SharedIsCrossed
      <4> QED BY <1>1, <3>1, <4>1
    <3> QED BY <3>2, <3>3
  <2> QED BY <1>0, <2>1 DEF OwnDirectory
<1>4. LeftEmpty'
  <2>1. ASSUME NEW j \in Keys, j \notin spoiled, \A b \in Emerges : cmd[b].at # j
        PROVE  dir'[j] = NoFiles
    BY <1>1, <2>1 DEF Places, LeftEmpty
  <2> QED BY <1>0, <2>1 DEF LeftEmpty
<1> QED BY <1>2, <1>3, <1>4 DEF Places

\* A command that leaves its directory behind spoils it; one that removes it
\* leaves an empty one.
LEMMA PlacesLeft ==
    ASSUME EmergeTypeOK, Places, NEW c \in Emerges, NEW s, Moves(c, s),
           cmd[c].at \in Keys, s.at = 0,
           \A j \in Keys \ {cmd[c].at} : dir'[j] = dir[j] /\ (j \in spoiled' <=> j \in spoiled),
           cmd[c].at \in spoiled' \/ dir'[cmd[c].at] = NoFiles,
           UNCHANGED crossed
    PROVE  Places'
<1> DEFINE k == cmd[c].at
<1>0. /\ k # 0 /\ cmd'[c].at = 0
      /\ \A b \in Emerges \ {c} : cmd'[b] = cmd[b]
  BY KeysAreNumbers DEF Moves
<1>2. SharedIsCrossed'
  BY <1>0 DEF Places, SharedIsCrossed
<1>3. OwnDirectory'
  <2>1. ASSUME NEW b \in Emerges \ {c}, cmd[b].at # 0, cmd[b].sure, b \notin crossed
        PROVE  dir'[cmd[b].at].work \cup dir'[cmd[b].at].image \subseteq {b}
    <3>1. dir[cmd[b].at].work \cup dir[cmd[b].at].image \subseteq {b} /\ cmd[b].at \in Keys
      BY <2>1 DEF Places, OwnDirectory, EmergeTypeOK, CommandState
    <3>2. cmd[b].at # k
      BY <1>0, <2>1 DEF Places, SharedIsCrossed
    <3> QED BY <3>1, <3>2
  <2> QED BY <1>0, <2>1 DEF OwnDirectory
<1>4. LeftEmpty'
  <2>1. ASSUME NEW j \in Keys, j \notin spoiled', \A b \in Emerges : cmd'[b].at # j
        PROVE  dir'[j] = NoFiles
    <3>1. CASE j = k
      BY <2>1, <3>1
    <3>2. CASE j # k
      <4>1. \A b \in Emerges : cmd[b].at # j
        BY <1>0, <2>1, <3>2
      <4> QED BY <2>1, <3>2, <4>1 DEF Places, LeftEmpty
    <3> QED BY <3>1, <3>2
  <2> QED BY <2>1 DEF LeftEmpty
<1> QED BY <1>2, <1>3, <1>4 DEF Places

-----------------------------------------------------------------------------
(* The inductive invariant, one lemma per action.                          *)

\* What is left to show of a step in which one command moves.
LEMMA StepKeeps ==
    ASSUME EmergeInv, NEW c \in Emerges, NEW s, Moves(c, s), cmd' \in [Emerges -> CommandState],
           HasPackage(s), InBuildOrder(deps, s), deps' = deps, Places', MergedIsOwn',
           (dir \in [Keys -> DirState])',
           (merged \in [Keys -> [by : Emerges \cup {0}, files : SUBSET Emerges, sure : BOOLEAN]])',
           (faults \in 0 .. MaxFaults)', (spoiled \subseteq Keys /\ crossed \subseteq Emerges)'
    PROVE  EmergeInv'
<1>1. cmd'[c] = s /\ \A b \in Emerges \ {c} : cmd'[b] = cmd[b]
  BY DEF Moves
<1>2. EmergeTypeOK'
  <2>1. deps' \in Graphs
    BY DEF EmergeInv, EmergeTypeOK
  <2> QED BY <2>1 DEF EmergeTypeOK, DirState
<1>3. AtWork'
  <2>1. ASSUME NEW b \in Emerges PROVE HasPackage(cmd'[b])
    <3>1. HasPackage(cmd[b])
      BY DEF EmergeInv, AtWork
    <3>2. CASE b = c
      BY <1>1, <3>2
    <3>3. CASE b # c
      <4>1. cmd'[b] = cmd[b]
        BY <1>1, <3>3
      <4> QED BY <3>1, <4>1
    <3> QED BY <3>2, <3>3
  <2> QED BY <2>1 DEF AtWork, HasPackage
<1>4. OrderHeld'
  <2>1. ASSUME NEW b \in Emerges PROVE InBuildOrder(deps', cmd'[b])
    <3>1. InBuildOrder(deps, cmd[b])
      BY DEF EmergeInv, OrderHeld
    <3>2. CASE b = c
      BY <1>1, <3>2
    <3>3. CASE b # c
      <4>1. cmd'[b] = cmd[b]
        BY <1>1, <3>3
      <4> QED BY <3>1, <4>1
    <3> QED BY <3>2, <3>3
  <2> QED BY <2>1 DEF OrderHeld
<1> QED BY <1>2, <1>3, <1>4 DEF EmergeInv, Places

\* The parts of the invariant, for the command that moves.
LEMMA Parts ==
    ASSUME EmergeInv, NEW c \in Emerges
    PROVE  /\ EmergeTypeOK /\ Places /\ MergedIsOwn
           /\ cmd[c] \in CommandState /\ HasPackage(cmd[c]) /\ InBuildOrder(deps, cmd[c])
           /\ dir \in [Keys -> DirState]
           /\ merged \in [Keys -> [by : Emerges \cup {0}, files : SUBSET Emerges, sure : BOOLEAN]]
           /\ faults \in 0 .. MaxFaults /\ spoiled \subseteq Keys /\ crossed \subseteq Emerges
           /\ cmd[c].at # 0 => cmd[c].at \in Keys
<1>1. EmergeTypeOK /\ AtWork /\ OrderHeld /\ Places /\ MergedIsOwn
  BY DEF EmergeInv, Places
<1>2. cmd[c] \in CommandState
  BY <1>1 DEF EmergeTypeOK
<1>3. cmd[c].at # 0 => cmd[c].at \in Keys
  BY <1>2 DEF CommandState
<1> QED BY <1>1, <1>2, <1>3 DEF EmergeTypeOK, AtWork, OrderHeld, DirState

LEMMA InitEmergeInv == EmergeInit => EmergeInv
<1> SUFFICES ASSUME EmergeInit PROVE EmergeInv
  OBVIOUS
<1>0. /\ \A c \in Emerges : cmd[c] = Idle
      /\ \A k \in Keys : dir[k] = NoFiles /\ merged[k] = NotMerged
      /\ Idle.pc = "idle" /\ Idle.at = 0
  BY DEF EmergeInit, Idle
<1>1. EmergeTypeOK
  <2>1. cmd \in [Emerges -> CommandState]
    BY RestingStates DEF EmergeInit
  <2>2. NoFiles \in [work : SUBSET Emerges, image : SUBSET Emerges]
    BY DEF NoFiles
  <2>3. NotMerged \in [by : Emerges \cup {0}, files : SUBSET Emerges, sure : BOOLEAN]
    BY DEF NotMerged
  <2>4. 0 \in 0 .. MaxFaults
    BY EmergeAssumption
  <2> QED BY <2>1, <2>2, <2>3, <2>4 DEF EmergeInit, EmergeTypeOK
<1>2. AtWork /\ OrderHeld
  BY <1>0 DEF AtWork, HasPackage, OrderHeld, InBuildOrder, Working
<1>3. SharedIsCrossed /\ OwnDirectory /\ LeftEmpty
  BY <1>0 DEF SharedIsCrossed, OwnDirectory, LeftEmpty
<1>4. MergedIsOwn
  BY <1>0 DEF MergedIsOwn, NotMerged
<1> QED BY <1>1, <1>2, <1>3, <1>4 DEF EmergeInv

LEMMA EmergeKeeps ==
    ASSUME EmergeInv, NEW c \in Emerges, Emerge(c)
    PROVE  EmergeInv'
<1>1. /\ cmd[c].pc = "idle" /\ UNCHANGED <<deps, dir, merged, faults, spoiled, crossed>>
      /\ EmergeTypeOK /\ Places /\ HasPackage(cmd[c])
  BY Parts DEF Emerge
<1>2. cmd[c].at = 0
  BY <1>1 DEF HasPackage, Working
<1>3. cmd' \in [Emerges -> CommandState]
  BY <1>1, EmergeMoves
<1>4. PICK s, sol : /\ Moves(c, s) /\ sol \in SUBSET Keys
                    /\ s.pc = "next" /\ s.at = 0 /\ s.done = {} /\ s.keep \subseteq sol
                    /\ s.order = topologicalSort(deps, sol)
  BY <1>1, EmergeMoves
<1>5. HasPackage(s)
  BY <1>4 DEF HasPackage, Working
<1>6. InBuildOrder(deps, s)
  BY <1>4, AskedInOrder DEF Moves
<1>7. Places'
  BY <1>1, <1>2, <1>4, PlacesSame
<1>8. MergedIsOwn'
  BY <1>1, Parts DEF MergedIsOwn
<1> QED BY <1>1, <1>3, <1>4, <1>5, <1>6, <1>7, <1>8, Parts, StepKeeps

LEMMA NextPackageKeeps ==
    ASSUME EmergeInv, NEW c \in Emerges, NextPackage(c)
    PROVE  EmergeInv'
<1>1. /\ cmd[c].pc = "next" /\ cmd[c].order # <<>> /\ UNCHANGED <<deps, dir, merged, spoiled>>
      /\ EmergeTypeOK /\ Places /\ HasPackage(cmd[c]) /\ cmd[c] \in CommandState
      /\ InBuildOrder(deps, cmd[c])
  BY Parts DEF NextPackage
<1>2. cmd[c].at = 0
  BY <1>1 DEF HasPackage, Working
<1>3. cmd' \in [Emerges -> CommandState]
  BY <1>1, NextPackageMoves
<1>4. PICK s : /\ Moves(c, s)
               /\ s.order = Tail(cmd[c].order)
               /\ s.done = cmd[c].done /\ s.keep = cmd[c].keep
               /\ s.keepGoing = cmd[c].keepGoing
               /\ \/ /\ Head(cmd[c].order) \in cmd[c].keep
                     /\ s.pc = cmd[c].pc /\ s.at = cmd[c].at
                     /\ UNCHANGED <<faults, crossed>>
                  \/ /\ s.pc = "phase" /\ s.at = Head(cmd[c].order) /\ s.phase = 1
                     /\ s.sure = (Head(cmd[c].order) \notin spoiled)
                     /\ faults' \in 0 .. MaxFaults
                     /\ crossed' = (IF \E b \in Emerges \ {c} : cmd[b].at = s.at
                                    THEN crossed \cup {b \in Emerges \ {c} : cmd[b].at = s.at} \cup {c}
                                    ELSE crossed \ {c})
  BY <1>1, NextPackageMoves
<1>5. s \in CommandState
  BY <1>4 DEF Moves
<1>6. MergedIsOwn'
  BY <1>1, Parts DEF MergedIsOwn
<1>7. CASE s.at = cmd[c].at /\ UNCHANGED <<faults, crossed>> /\ Head(cmd[c].order) \in cmd[c].keep /\ s.pc = "next"
  <2>1. HasPackage(s)
    BY <1>2, <1>7 DEF HasPackage, Working
  <2>2. InBuildOrder(deps, s)
    BY <1>1, <1>2, <1>4, <1>5, <1>7, KeptInOrder
  <2>3. Places'
    BY <1>1, <1>2, <1>4, <1>7, PlacesSame
  <2> QED BY <1>1, <1>3, <1>4, <1>6, <1>7, <2>1, <2>2, <2>3, Parts, StepKeeps
<1>8. CASE /\ s.pc = "phase" /\ s.at = Head(cmd[c].order) /\ s.phase = 1
           /\ s.sure = (Head(cmd[c].order) \notin spoiled)
           /\ faults' \in 0 .. MaxFaults
           /\ crossed' = (IF \E b \in Emerges \ {c} : cmd[b].at = s.at
                          THEN crossed \cup {b \in Emerges \ {c} : cmd[b].at = s.at} \cup {c}
                          ELSE crossed \ {c})
  <2>1. s.at \in Keys /\ s.at # 0
    <3>1. cmd[c].order \in Seq(Keys)
      BY <1>1 DEF CommandState
    <3> QED BY <1>1, <1>8, <3>1, RangeOfTail, KeysAreNumbers
  <2>2. HasPackage(s)
    BY <1>8, <2>1 DEF HasPackage, Working
  <2>3. InBuildOrder(deps, s)
    BY <1>1, <1>2, <1>4, <1>5, <1>8, TakenPackageInOrder
  <2>4. s.sure = (s.at \notin spoiled)
    BY <1>8
  <2>5. Places'
    BY <1>1, <1>2, <1>4, <1>8, <2>1, <2>4, PlacesTaken
  <2>6. crossed' \subseteq Emerges
    BY <1>8, Parts
  <2> QED BY <1>1, <1>3, <1>4, <1>6, <1>8, <2>2, <2>3, <2>5, <2>6, Parts, StepKeeps
<1> QED BY <1>1, <1>4, <1>7, <1>8

LEMMA EndCommandKeeps ==
    ASSUME EmergeInv, NEW c \in Emerges, EndEmerge(c)
    PROVE  EmergeInv'
<1> DEFINE v == IF cmd[c].failed = {} THEN "nil" ELSE "error"
<1>1. /\ cmd[c].pc = "next" /\ UNCHANGED <<deps, dir, merged, faults, spoiled, crossed>>
      /\ cmd' = [cmd EXCEPT ![c] = Ended(v)]
      /\ EmergeTypeOK /\ Places /\ HasPackage(cmd[c])
  BY Parts DEF EndEmerge
<1>2. cmd[c].at = 0
  BY <1>1 DEF HasPackage, Working
<1>3. v \in {"nil", "error", "killed"}
  OBVIOUS
<1> HIDE DEF v
<1>4. Ended(v) \in CommandState /\ Ended(v).pc = v /\ Ended(v).at = 0
  BY <1>3, RestingStates
<1>5. cmd' \in [Emerges -> CommandState] /\ Moves(c, Ended(v))
  BY <1>1, <1>4, Replaced
<1>6. HasPackage(Ended(v)) /\ InBuildOrder(deps, Ended(v))
  BY <1>3, <1>4 DEF HasPackage, InBuildOrder, Working
<1>7. Places'
  BY <1>1, <1>2, <1>4, <1>5, PlacesSame
<1>8. MergedIsOwn'
  BY <1>1, Parts DEF MergedIsOwn
<1> QED BY <1>1, <1>5, <1>6, <1>7, <1>8, Parts, StepKeeps

\* A build that fails, whatever it has made of its own directory.
LEMMA FailedKeeps ==
    ASSUME EmergeInv, NEW c \in Emerges, cmd[c].pc \in {"phase", "merge"}, Failed(c),
           NEW t \in DirState, dir' = [dir EXCEPT ![cmd[c].at] = t],
           UNCHANGED <<deps, merged, crossed>>
    PROVE  EmergeInv'
<1>1. EmergeTypeOK /\ Places /\ HasPackage(cmd[c])
  BY Parts
<1>2. cmd[c].at # 0 /\ cmd[c].at \in Keys
  <2>1. cmd[c].at # 0
    BY <1>1 DEF HasPackage, Working
  <2> QED BY <2>1, Parts
<1>3. /\ cmd' \in [Emerges -> CommandState] /\ faults' \in 0 .. MaxFaults
      /\ spoiled' = spoiled \cup {cmd[c].at}
  BY <1>1, <1>2, FailedMoves
<1>4. PICK s : /\ Moves(c, s) /\ s.at = 0
               /\ s.pc = "error" \/ (s.pc = "next" /\ s.keepGoing)
  BY <1>1, <1>2, FailedMoves
<1>5. HasPackage(s) /\ InBuildOrder(deps, s)
  BY <1>4 DEF HasPackage, InBuildOrder, Working
<1>6. dir' \in [Keys -> DirState] /\ \A j \in Keys \ {cmd[c].at} : dir'[j] = dir[j]
  BY <1>2, Parts
<1>7. Places'
  BY <1>1, <1>2, <1>3, <1>4, <1>6, PlacesLeft
<1>8. MergedIsOwn'
  BY Parts DEF MergedIsOwn
<1>9. spoiled' \subseteq Keys
  BY <1>2, <1>3, Parts
<1> QED BY <1>3, <1>4, <1>5, <1>6, <1>7, <1>8, <1>9, Parts, StepKeeps

LEMMA FetchFailsKeeps ==
    ASSUME EmergeInv, NEW c \in Emerges, FetchFails(c)
    PROVE  EmergeInv'
<1>1. cmd[c].pc = "phase" /\ Failed(c) /\ UNCHANGED <<deps, dir, merged, crossed>>
  BY DEF FetchFails
<1>2. cmd[c].at \in Keys /\ dir \in [Keys -> DirState]
  BY <1>1, Parts DEF HasPackage, Working
<1>3. dir[cmd[c].at] \in DirState /\ dir' = [dir EXCEPT ![cmd[c].at] = dir[cmd[c].at]]
  BY <1>1, <1>2
<1> QED BY <1>1, <1>3, FailedKeeps

LEMMA PhaseFailsKeeps ==
    ASSUME EmergeInv, NEW c \in Emerges, PhaseFails(c)
    PROVE  EmergeInv'
<1>1. cmd[c].pc = "phase" /\ Failed(c) /\ UNCHANGED <<deps, merged, crossed>>
  BY DEF PhaseFails
<1>2. cmd[c].at \in Keys /\ dir[cmd[c].at] \in DirState
  BY <1>1, Parts DEF HasPackage, Working
<1>3. PICK t \in {dir[cmd[c].at]} \cup Outcomes(c, dir[cmd[c].at]) : dir' = [dir EXCEPT ![cmd[c].at] = t]
  BY DEF PhaseFails
<1>4. t \in DirState
  BY <1>2, <1>3, OutcomesBounded
<1> QED BY <1>1, <1>3, <1>4, FailedKeeps

LEMMA PhaseEndsKeeps ==
    ASSUME EmergeInv, NEW c \in Emerges, PhaseEnds(c)
    PROVE  EmergeInv'
<1>1. cmd[c].pc = "phase" /\ UNCHANGED <<deps, merged, faults, spoiled, crossed>>
  BY DEF PhaseEnds
<1>2. /\ cmd[c].at # 0 /\ cmd[c].at \in Keys /\ dir[cmd[c].at] \in DirState
      /\ EmergeTypeOK /\ Places /\ cmd[c] \in CommandState /\ cmd[c].phase # 0
      /\ cmd[c].pc \in Working /\ InBuildOrder(deps, cmd[c])
  BY <1>1, Parts DEF HasPackage, Working
<1>3. PICK t \in {dir[cmd[c].at]} \cup Outcomes(c, dir[cmd[c].at]) : dir' = [dir EXCEPT ![cmd[c].at] = t]
  BY DEF PhaseEnds
<1>4. /\ t \in DirState /\ t.work \subseteq dir[cmd[c].at].work \cup {c}
      /\ t.image \subseteq dir[cmd[c].at].image \cup dir[cmd[c].at].work \cup {c}
  BY <1>2, <1>3, OutcomesBounded
<1>5. cmd' \in [Emerges -> CommandState]
  BY <1>2, PhaseEndsMoves
<1>6. PICK s : /\ Moves(c, s) /\ s.pc \in {"phase", "merge"} /\ s.phase # 0
               /\ s.at = cmd[c].at /\ s.sure = cmd[c].sure
               /\ s.order = cmd[c].order /\ s.keep = cmd[c].keep /\ s.done = cmd[c].done
               /\ s.keepGoing = cmd[c].keepGoing
  BY <1>2, PhaseEndsMoves
<1>7. HasPackage(s)
  BY <1>2, <1>6 DEF HasPackage, Working
<1>8. InBuildOrder(deps, s)
  BY <1>2, <1>6, SettledInOrder DEF Moves
<1>9. Places'
  BY <1>1, <1>2, <1>3, <1>4, <1>6, PlacesPhase
<1>10. dir' \in [Keys -> DirState]
  BY <1>3, <1>4, Parts
<1>11. MergedIsOwn'
  BY <1>1, Parts DEF MergedIsOwn
<1> QED BY <1>1, <1>5, <1>6, <1>7, <1>8, <1>9, <1>10, <1>11, Parts, StepKeeps

LEMMA MergeKeeps ==
    ASSUME EmergeInv, NEW c \in Emerges, Merge(c)
    PROVE  EmergeInv'
<1> DEFINE k == cmd[c].at
           m == [by |-> c, files |-> dir[k].image, sure |-> cmd[c].sure /\ c \notin crossed]
<1>1. cmd[c].pc = "merge" /\ UNCHANGED <<deps, dir, crossed>>
  BY DEF Merge
<1>2. /\ k # 0 /\ k \in Keys /\ dir[k] \in DirState
      /\ EmergeTypeOK /\ Places /\ cmd[c] \in CommandState
      /\ cmd[c].pc \in Working /\ InBuildOrder(deps, cmd[c])
  BY <1>1, Parts DEF HasPackage, Working
<1>3. CASE Failed(c) /\ UNCHANGED merged
  <2>1. dir' = [dir EXCEPT ![k] = dir[k]]
    BY <1>1, <1>2, Parts
  <2> QED BY <1>1, <1>2, <1>3, <2>1, FailedKeeps
<1>4. CASE /\ merged' = [merged EXCEPT ![k] = m]
           /\ cmd' = [cmd EXCEPT ![c].done = @ \cup {cmd[c].at}, ![c].pc = "cleanup"]
           /\ UNCHANGED <<faults, spoiled>>
  <2>1. cmd' \in [Emerges -> CommandState]
    BY <1>2, <1>4, MergedMoves
  <2>2. PICK s : /\ Moves(c, s) /\ s.pc = "cleanup"
                 /\ s.at = cmd[c].at /\ s.sure = cmd[c].sure
                 /\ s.order = cmd[c].order /\ s.keep = cmd[c].keep
                 /\ s.done = cmd[c].done \cup {cmd[c].at}
                 /\ s.keepGoing = cmd[c].keepGoing
    BY <1>2, <1>4, MergedMoves
  <2>3. HasPackage(s)
    BY <1>2, <2>2 DEF HasPackage, Working
  <2>4. InBuildOrder(deps, s)
    BY <1>2, <2>2, SettledInOrder DEF Moves
  <2>5. Places'
    BY <1>1, <1>2, <1>4, <2>2, PlacesSame
  <2>6. m \in [by : Emerges \cup {0}, files : SUBSET Emerges, sure : BOOLEAN]
    BY <1>2 DEF DirState
  <2>7. m.by = c /\ m.files = dir[k].image /\ (m.sure => cmd[c].sure /\ c \notin crossed)
    OBVIOUS
  <2> HIDE DEF m
  <2>8. merged' \in [Keys -> [by : Emerges \cup {0}, files : SUBSET Emerges, sure : BOOLEAN]]
    BY <1>4, <2>6, Parts
  <2>9. m.sure => m.files \subseteq {m.by}
    <3>1. cmd[c].sure /\ c \notin crossed => dir[k].work \cup dir[k].image \subseteq {c}
      BY <1>2 DEF Places, OwnDirectory
    <3> QED BY <2>7, <3>1
  <2>10. MergedIsOwn'
    <3>1. ASSUME NEW j \in Keys, merged'[j].sure PROVE merged'[j].files \subseteq {merged'[j].by}
      <4>1. CASE j = k
        <5>1. merged'[j] = m
          BY <1>2, <1>4, <4>1, Parts
        <5> QED BY <2>9, <3>1, <5>1
      <4>2. CASE j # k
        <5>1. merged'[j] = merged[j]
          BY <1>4, <4>2, Parts
        <5>2. MergedIsOwn
          BY Parts
        <5> QED BY <3>1, <5>1, <5>2 DEF MergedIsOwn
      <4> QED BY <4>1, <4>2
    <3> QED BY <3>1 DEF MergedIsOwn
  <2> QED BY <1>1, <1>4, <2>1, <2>2, <2>3, <2>4, <2>5, <2>8, <2>10, Parts, StepKeeps
<1> QED BY <1>3, <1>4 DEF Merge

LEMMA CleanupKeeps ==
    ASSUME EmergeInv, NEW c \in Emerges, Cleanup(c)
    PROVE  EmergeInv'
<1> DEFINE k == cmd[c].at
           s == Rest(cmd[c])
<1>1. /\ cmd[c].pc = "cleanup" /\ UNCHANGED <<deps, merged, crossed>>
      /\ cmd' = [cmd EXCEPT ![c] = s]
  BY DEF Cleanup
<1>2. /\ k # 0 /\ k \in Keys /\ dir \in [Keys -> DirState] /\ k \in cmd[c].done
      /\ EmergeTypeOK /\ Places /\ cmd[c] \in CommandState
      /\ cmd[c].pc \in Working /\ InBuildOrder(deps, cmd[c])
  BY <1>1, Parts DEF HasPackage, Working
<1>3. /\ s \in CommandState /\ s.pc = "next" /\ s.at = 0
      /\ s.order = cmd[c].order /\ s.keep = cmd[c].keep /\ s.done = cmd[c].done
      /\ s.keepGoing = cmd[c].keepGoing
  BY <1>2, RestingStates
<1> HIDE DEF s
<1>4. cmd' \in [Emerges -> CommandState] /\ Moves(c, s)
  BY <1>1, <1>2, <1>3, Replaced
<1>5. HasPackage(s)
  BY <1>3 DEF HasPackage, Working
<1>6. InBuildOrder(deps, s)
  BY <1>2, <1>3, SettledInOrder
<1>7. /\ dir' \in [Keys -> DirState] /\ spoiled' \subseteq Keys /\ faults' \in 0 .. MaxFaults
      /\ k \in spoiled' \/ dir'[k] = NoFiles
      /\ \A j \in Keys \ {k} : dir'[j] = dir[j] /\ (j \in spoiled' <=> j \in spoiled)
  <2>1. CASE /\ dir' = [dir EXCEPT ![k] = NoFiles] /\ spoiled' = spoiled \ {k} /\ UNCHANGED faults
    <3>1. NoFiles \in DirState
      BY DEF NoFiles, DirState
    <3> QED BY <1>2, <2>1, <3>1, Parts
  <2>2. CASE faults < MaxFaults /\ faults' = faults + 1 /\ spoiled' = spoiled \cup {k} /\ UNCHANGED dir
    <3>1. faults' \in 0 .. MaxFaults
      BY <2>2, Parts, EmergeAssumption
    <3> QED BY <1>2, <2>2, <3>1, Parts
  <2>3. CASE spoiled' = spoiled \cup {k} /\ UNCHANGED <<dir, faults>>
    BY <1>2, <2>3, Parts
  <2> QED BY <2>1, <2>2, <2>3 DEF Cleanup
<1>8. Places'
  BY <1>1, <1>2, <1>3, <1>4, <1>7, PlacesLeft
<1>9. MergedIsOwn'
  BY <1>1, Parts DEF MergedIsOwn
<1> QED BY <1>1, <1>4, <1>5, <1>6, <1>7, <1>8, <1>9, Parts, StepKeeps

LEMMA KillKeeps ==
    ASSUME EmergeInv, NEW c \in Emerges, Kill(c)
    PROVE  EmergeInv'
<1> DEFINE k == cmd[c].at
           s == Ended("killed")
<1>1. /\ cmd[c].pc \in {"next", "phase", "merge", "cleanup"} /\ UNCHANGED <<deps, dir, merged, crossed>>
      /\ cmd' = [cmd EXCEPT ![c] = s] /\ faults < MaxFaults /\ faults' = faults + 1
      /\ spoiled' = IF cmd[c].pc = "next" THEN spoiled ELSE spoiled \cup {k}
      /\ EmergeTypeOK /\ Places /\ HasPackage(cmd[c])
  BY Parts DEF Kill
<1>2. s \in CommandState /\ s.pc = "killed" /\ s.at = 0
  BY RestingStates
<1> HIDE DEF s
<1>3. cmd' \in [Emerges -> CommandState] /\ Moves(c, s)
  BY <1>1, <1>2, Replaced
<1>4. HasPackage(s) /\ InBuildOrder(deps, s)
  BY <1>2 DEF HasPackage, InBuildOrder, Working
<1>5. faults' \in 0 .. MaxFaults
  BY <1>1, Parts, EmergeAssumption
<1>6. MergedIsOwn'
  BY <1>1, Parts DEF MergedIsOwn
<1>7. Places' /\ spoiled' \subseteq Keys
  <2>1. CASE cmd[c].pc = "next"
    <3>1. cmd[c].at = 0 /\ UNCHANGED spoiled
      BY <1>1, <2>1 DEF HasPackage, Working
    <3> QED BY <1>1, <1>2, <1>3, <3>1, PlacesSame, Parts
  <2>2. CASE cmd[c].pc # "next"
    <3>1. k \in Keys /\ spoiled' = spoiled \cup {k}
      BY <1>1, <2>2, Parts DEF HasPackage, Working
    <3> QED BY <1>1, <1>2, <1>3, <3>1, PlacesLeft, Parts
  <2> QED BY <2>1, <2>2
<1> QED BY <1>1, <1>3, <1>4, <1>5, <1>6, <1>7, Parts, StepKeeps

LEMMA NextEmergeInv == EmergeInv /\ [EmergeNext]_emergeVars => EmergeInv'
<1> SUFFICES ASSUME EmergeInv, [EmergeNext]_emergeVars PROVE EmergeInv'
  OBVIOUS
<1>1. CASE UNCHANGED emergeVars
  BY <1>1 DEF emergeVars, EmergeInv, EmergeTypeOK, AtWork, HasPackage, SharedIsCrossed, OwnDirectory,
              LeftEmpty, MergedIsOwn, OrderHeld
<1>2. CASE EmergeNext
  <2>1. PICK c \in Emerges :
          \/ Emerge(c) \/ NextPackage(c) \/ EndEmerge(c)
          \/ FetchFails(c) \/ PhaseEnds(c) \/ PhaseFails(c)
          \/ Merge(c) \/ Cleanup(c) \/ Kill(c)
    BY <1>2 DEF EmergeNext
  <2> QED BY <2>1, EmergeKeeps, NextPackageKeeps, EndCommandKeeps, FetchFailsKeeps, PhaseEndsKeeps,
             PhaseFailsKeeps, MergeKeeps, CleanupKeeps, KillKeeps
<1> QED BY <1>1, <1>2

LEMMA IndInvHolds == EmergeSpec => []EmergeInv
BY InitEmergeInv, NextEmergeInv, PTL DEF EmergeSpec

-----------------------------------------------------------------------------
(* The theorems.                                                           *)

\* Every step keeps the commands, their work directories and what they merge
\* well formed: a failed, killed or kept build included.
THEOREM EmergeTypeCorrect == EmergeSpec => []EmergeTypeOK
<1>1. EmergeInv => EmergeTypeOK
  BY DEF EmergeInv
<1> QED BY <1>1, IndInvHolds, PTL

\* A build that nobody disturbed merges its own files only, however many
\* commands overlap, fail or are killed around it (installFromImageDir).
THEOREM UndisturbedMergesOwn == EmergeSpec => []MergedIsOwn
<1>1. EmergeInv => MergedIsOwn
  BY DEF EmergeInv
<1> QED BY <1>1, IndInvHolds, PTL

\* While a package is built, all it waits for has been merged or was kept, for
\* any dependencies without a cycle (topologicalSort, buildAndInstallPackages).
THEOREM BuiltAfterDependencies == EmergeSpec => []DependenciesMergedFirst
<1>1. EmergeInv => DependenciesMergedFirst
  <2> SUFFICES ASSUME EmergeInv, NEW c \in Emerges,
                      cmd[c].pc \in Working, ~cmd[c].keepGoing,
                      Acyclic(deps, Range(cmd[c].order) \cup {cmd[c].at} \cup cmd[c].done \cup cmd[c].keep)
               PROVE  buildDepEdges(deps, Range(cmd[c].order) \cup {cmd[c].at} \cup cmd[c].done \cup cmd[c].keep,
                                    cmd[c].at) \subseteq cmd[c].done \cup cmd[c].keep
    BY DEF DependenciesMergedFirst
  <2>1. cmd[c].at # 0 /\ InBuildOrder(deps, cmd[c])
    BY Parts DEF HasPackage
  <2>2. Asked(cmd[c]) = Range(cmd[c].order) \cup {cmd[c].at} \cup cmd[c].done \cup cmd[c].keep
    BY <2>1 DEF Asked
  <2> QED BY <2>1, <2>2 DEF InBuildOrder, Settled
<1> QED BY <1>1, IndInvHolds, PTL

(***************************************************************************)
(* The installation, for any packages, files, workers, commands and bounds,*)
(* with crashes and I/O errors: types, the soundness of the file index, the*)
(* survival of edited configuration files, and that what was installed stays*)
(* installed: see IndexSound, UserConfigKept and InstalledKept in          *)
(* PackageInstall.                                                         *)
(***************************************************************************)

(***************************************************************************)
(* Listings, images and destinations.                                      *)
(***************************************************************************)
\* No file, an edited file and a partial one are contents.
LEMMA SpecialContents == {NoFile, Edited, Partial} \subseteq Contents
  BY DEF Contents

\* The empty listing is a listing, and a record, without files.
LEMMA NoneListing ==
    /\ None \in Listing /\ None \in Records
    /\ \A n \in FileNames : None[n] = NoFile
  BY DEF None, Listing, Records, Contents

\* What is read of a record is part of it and has hashes only.
LEMMA ParsedRecord ==
    ASSUME NEW rec \in Records
    PROVE  /\ Parsed(rec) \in Records
           /\ \A n \in FileNames : /\ Parsed(rec)[n] \in {rec[n], NoFile}
                                    /\ Parsed(rec)[n] # NoHash
  BY ContentAssumption DEF Parsed, Records, Contents

\* The files of an image have names, and contents that nobody edited.
LEMMA ImageNames ==
    ASSUME NEW a \in Atoms
    PROVE  Image(a) \subseteq FileNames
  BY CfgAssumption DEF Image, FileNames

\* What a package has for a name is one of the contents.
LEMMA ImageContent ==
    ASSUME NEW a \in Atoms, NEW n \in FileNames
    PROVE  /\ ContentOf[a][n[1]] \in Contents
           /\ ContentOf[a][n[1]] \notin {Edited, NoHash}
  <1>1. n[1] \in Paths
    BY DEF FileNames
  <1> QED BY <1>1, ContentAssumption DEF Contents

\* A file that the administrator has edited is no destination.
LEMMA EditedNoDestination ==
    ASSUME RootIsSlash, NEW p \in ConfigPaths, fs[<<p, 0>>] = Edited,
           NEW n \in FileNames, NEW c, c # Edited
    PROVE  <<p, 0>> \notin Destinations(n, c)
  <1>1. CASE Protected(n, c)
    <2>1. \A dest \in Destinations(n, c) : \E i \in 1..MaxCfg : dest = <<n[1], i>>
      BY <1>1 DEF Destinations
    <2>2. \A i \in 1..MaxCfg : <<n[1], i>> # <<p, 0>>
      BY CfgAssumption
    <2> QED BY <2>1, <2>2
  <1>2. CASE ~Protected(n, c)
    <2>1. SUFFICES ASSUME n = <<p, 0>> PROVE FALSE
      BY <1>2 DEF Destinations
    <2>2. n[1] \in ConfigPaths /\ fs[n] \notin {NoFile, c}
      BY <2>1, ContentAssumption
    <2> QED BY <1>2, <2>2 DEF Protected
  <1> QED BY <1>1, <1>2

\* Only an installed package that has the file is loaded as its owner.
LEMMA LoadedOwnerSound ==
    ASSUME NEW n \in FileNames
    PROVE  \/ LoadedOwner(n) = NoAtom
           \/ LoadedOwner(n) \in vslot /\ Parsed(vfiles[LoadedOwner(n)])[n] # NoFile
  BY DEF LoadedOwner

(***************************************************************************)
(* Type correctness.                                                       *)
(***************************************************************************)
\* The first process finds an empty system, with every variable of its type.
LEMMA InitTypes == Init => TypeOK
  BY NoneListing DEF Init, TypeOK, DiskOK, DatabaseOK, WorkersOK, Points,
     Unmerging

\* A process that begins, ends or is killed, and the administrator.
LEMMA CommandTypes ==
    ASSUME TypeOK,
           \/ \E kind \in Commands, choice \in [Workers -> Atoms \union {NoAtom}] :
                 BeginCommand(kind, choice)
           \/ EndCommand \/ Crash
           \/ \E p \in Paths : UserEdit(p)
    PROVE  TypeOK'
  <1> USE DEF TypeOK, DiskOK, DatabaseOK, WorkersOK
  <1>1. ASSUME NEW kind \in Commands,
               NEW choice \in [Workers -> Atoms \union {NoAtom}],
               BeginCommand(kind, choice)
        PROVE  TypeOK'
    <2>1. DiskOK' /\ numCommands' \in Nat /\ numEdits' \in Nat /\ numErrors' \in Nat
          /\ unhashed' \in SUBSET FileNames
          /\ acked' \in SUBSET Atoms /\ command' \in Commands \union {"none"}
      BY <1>1 DEF BeginCommand, diskVars
    <2>2. DatabaseOK'
      BY <1>1, LoadedOwnerSound, ParsedRecord, NoneListing DEF BeginCommand
    <2>3. WorkersOK'
      BY <1>1 DEF BeginCommand, Points, Unmerging
    <2> QED BY <2>1, <2>2, <2>3
  <1>2. ASSUME NoProcess, UNCHANGED <<diskVars, counters, acked>>
        PROVE  TypeOK'
    BY <1>2, NoneListing DEF NoProcess, diskVars, counters, Points, Unmerging
  <1>3. ASSUME NEW p \in Paths, UserEdit(p)
        PROVE  TypeOK'
    <2>1. fs' = [fs EXCEPT ![<<p, 0>>] = Edited]
      BY <1>3 DEF UserEdit
    <2>2. fs' \in Listing
      BY <2>1, SpecialContents DEF Listing
    <2>3. UNCHANGED <<backup, vfiles, vslot, command, dbVars, workVars,
                      numCommands, numErrors, acked, unhashed>> /\ numEdits' = numEdits + 1
      BY <1>3 DEF UserEdit
    <2> QED BY <2>2, <2>3 DEF dbVars, workVars
  <1> QED BY <1>1, <1>2, <1>3 DEF EndCommand, Crash

\* The steps of Unmerger.
LEMMA UnmergeTypes ==
    ASSUME TypeOK, NEW w \in Workers,
           \/ UninstallHas(w) \/ UninstallGet(w)
           \/ \E n \in FileNames, hashErr \in BOOLEAN : RemoveFile(w, n, hashErr)
           \/ RemoveFromDB(w)
           \/ \E err \in BOOLEAN : DropVarDB(w, err)
    PROVE  TypeOK'
  <1> USE DEF TypeOK, DiskOK, DatabaseOK, WorkersOK, OnlyWorker, FailsIf, OnlyFails, counters,
              Unmerging, Points
  <1>1. CASE UninstallHas(w)
    BY <1>1 DEF UninstallHas, diskVars, dbVars
  <1>2. CASE UninstallGet(w)
    BY <1>2 DEF UninstallGet, Recorded, diskVars, dbVars
  <1>3. ASSUME NEW n \in FileNames, NEW hashErr \in BOOLEAN, RemoveFile(w, n, hashErr)
        PROVE  TypeOK'
    <2>1. fs' \in Listing
      BY <1>3, SpecialContents DEF RemoveFile, Listing
    <2>2. backup' \in Listing
      BY <1>3 DEF RemoveFile, Listing
    <2> QED BY <1>3, <2>1, <2>2 DEF RemoveFile, dbVars
  <1>4. CASE RemoveFromDB(w)
    BY <1>4, NoneListing, ImageNames DEF RemoveFromDB, StartMerge, diskVars, dbVars
  <1>5. ASSUME NEW err \in BOOLEAN, DropVarDB(w, err)
        PROVE  TypeOK'
    BY <1>5, NoneListing DEF DropVarDB, dbVars
  <1> QED BY <1>1, <1>2, <1>3, <1>4, <1>5

\* The steps of Install and Merger.
LEMMA MergeTypes ==
    ASSUME TypeOK, NEW w \in Workers,
           \/ \E q \in Atoms : FindInstalled(w, q)
           \/ FindNone(w)
           \/ \E n \in FileNames : CheckFile(w, n)
           \/ CheckEnd(w)
           \/ \E n \in FileNames : CopyFile(w, n) \/ CopyNoName(w, n) \/ CopyFail(w, n)
           \/ AddToDB(w)
    PROVE  TypeOK'
  <1> USE DEF TypeOK, DiskOK, DatabaseOK, WorkersOK, OnlyWorker, FailsIf, OnlyFails, counters,
              Unmerging, Points
  <1>1. ASSUME NEW q \in Atoms, FindInstalled(w, q)
        PROVE  TypeOK'
    BY <1>1 DEF FindInstalled, diskVars, dbVars, Rewriting
  <1>2. CASE FindNone(w)
    BY <1>2, NoneListing, ImageNames DEF FindNone, StartMerge, diskVars, dbVars
  <1>3. ASSUME NEW n \in FileNames, CheckFile(w, n)
        PROVE  TypeOK'
    BY <1>3 DEF CheckFile, diskVars, dbVars
  <1>4. CASE CheckEnd(w)
    BY <1>4, ImageNames DEF CheckEnd, diskVars, dbVars
  <1>5. ASSUME NEW n \in FileNames, CopyFile(w, n)
        PROVE  TypeOK'
    <2>1. pkg[w] \in Atoms
      BY <1>5 DEF CopyFile
    <2> DEFINE c == ContentOf[pkg[w]][n[1]]
    <2>2. PICK dest \in Destinations(n, c), hash \in {c, NoHash} :
            /\ fs' = [fs EXCEPT ![dest] = c]
            /\ files' = [files EXCEPT ![w][dest] = hash]
            /\ FailsIf(hash = NoHash)
      BY <1>5 DEF CopyFile
    <2>3. c \in Contents
      BY <2>1, ImageContent
    <2> HIDE DEF c
    <2>4. fs' \in Listing /\ files' \in [Workers -> Records]
      BY <2>2, <2>3 DEF Listing, Records
    <2>5. UNCHANGED <<backup, vfiles, vslot, dbVars, wpc, pkg, old, acked>>
          /\ todo' = [todo EXCEPT ![w] = @ \ {n}] /\ unhashed' = {}
      BY <1>5 DEF CopyFile
    <2>6. UNCHANGED <<command, numCommands, numEdits>> /\ numErrors' \in Nat
      BY <2>2
    <2> QED BY <2>4, <2>5, <2>6 DEF dbVars
  <1>6. ASSUME NEW n \in FileNames, CopyNoName(w, n)
        PROVE  TypeOK'
    BY <1>6 DEF CopyNoName, diskVars, dbVars
  <1>7. ASSUME NEW n \in FileNames, CopyFail(w, n)
        PROVE  TypeOK'
    <2>1. fs' \in Listing
      <3>1. PICK dest \in Destinations(n, ContentOf[pkg[w]][n[1]]),
                 left \in {Partial, ContentOf[pkg[w]][n[1]]} : fs' = [fs EXCEPT ![dest] = left]
        BY <1>7 DEF CopyFail
      <3>2. left \in Contents
        BY <1>7, SpecialContents, ImageContent DEF CopyFail
      <3> QED BY <3>1, <3>2 DEF Listing
    <2> QED BY <1>7, <2>1 DEF CopyFail, dbVars
  <1>8. CASE AddToDB(w)
    BY <1>8 DEF AddToDB, diskVars
  <1> QED BY <1>1, <1>2, <1>3, <1>4, <1>5, <1>6, <1>7, <1>8

\* The steps of VarDBWriter, and I/O errors.
LEMMA WriteTypes ==
    ASSUME TypeOK, NEW w \in Workers,
           TruncateContents(w) \/ FillContents(w) \/ WriteSlot(w) \/ IOFail(w)
    PROVE  TypeOK'
  <1> USE DEF TypeOK, DiskOK, DatabaseOK, WorkersOK, OnlyWorker, FailsIf, OnlyFails, counters,
              Unmerging, Points, Rewriting, dbVars
  <1>1. CASE TruncateContents(w)
    BY <1>1, NoneListing DEF TruncateContents
  <1>2. CASE FillContents(w)
    BY <1>2 DEF FillContents
  <1>3. CASE WriteSlot(w)
    BY <1>3 DEF WriteSlot
  <1>4. CASE IOFail(w)
    BY <1>4 DEF IOFail, diskVars
  <1> QED BY <1>1, <1>2, <1>3, <1>4

\* Every step of a command, of the administrator or of a kill keeps the types.
LEMMA NextTypes == TypeOK /\ [Next]_vars => TypeOK'
  <1>1. ASSUME TypeOK, UNCHANGED vars PROVE TypeOK'
    BY <1>1 DEF vars, diskVars, dbVars, workVars, counters, TypeOK, DiskOK,
       DatabaseOK, WorkersOK
  <1> QED BY <1>1, CommandTypes, UnmergeTypes, MergeTypes, WriteTypes
          DEF Next, Worker

(***************************************************************************)
(* The file index.                                                         *)
(***************************************************************************)
\* Add, Remove and LoadInto are the steps that touch the database; they keep
\* the index sound, and so does the end of the process.
LEMMA IndexKept ==
    ASSUME TypeOK, IndexSound, [Next]_vars
    PROVE  IndexSound'
  <1> USE DEF IndexSound
  <1>1. CASE UNCHANGED dbVars
    BY <1>1 DEF dbVars
  <1>2. ASSUME NEW kind \in Commands, NEW choice, BeginCommand(kind, choice)
        PROVE  IndexSound'
    BY <1>2, LoadedOwnerSound DEF BeginCommand, TypeOK, DiskOK
  <1>3. CASE NoProcess
    BY <1>3 DEF NoProcess
  <1>4. ASSUME NEW w \in Workers, RemoveFromDB(w)
        PROVE  IndexSound'
    <2>1. CASE old[w] \in db
      <3> SUFFICES ASSUME NEW n \in FileNames, fileIndex'[n] # NoAtom
                   PROVE  fileIndex'[n] \in db' /\ dbFiles'[fileIndex'[n]][n] # NoFile
        OBVIOUS
      <3>1. /\ db' = db \ {old[w]}
            /\ dbFiles' = [dbFiles EXCEPT ![old[w]] = None]
            /\ fileIndex' = [m \in FileNames |->
                               IF dbFiles[old[w]][m] # NoFile THEN NoAtom
                               ELSE fileIndex[m]]
        BY <1>4, <2>1 DEF RemoveFromDB
      <3>2. fileIndex'[n] = fileIndex[n] /\ dbFiles[old[w]][n] = NoFile
        BY <3>1
      <3>3. fileIndex[n] \in db /\ dbFiles[fileIndex[n]][n] # NoFile
        BY <3>2
      <3>4. fileIndex[n] # old[w]
        BY <3>2, <3>3
      <3> QED BY <3>1, <3>2, <3>3, <3>4 DEF TypeOK, DatabaseOK
    <2>2. CASE old[w] \notin db
      BY <1>4, <2>2 DEF RemoveFromDB, dbVars
    <2> QED BY <2>1, <2>2
  <1>5. ASSUME NEW w \in Workers, AddToDB(w)
        PROVE  IndexSound'
    <2> SUFFICES ASSUME NEW n \in FileNames, fileIndex'[n] # NoAtom
                 PROVE  fileIndex'[n] \in db' /\ dbFiles'[fileIndex'[n]][n] # NoFile
      OBVIOUS
    <2>1. pkg[w] \in Atoms
      BY <1>5 DEF AddToDB, TypeOK, WorkersOK
    <2>2. /\ db' = db \union {pkg[w]}
          /\ dbFiles' = [dbFiles EXCEPT ![pkg[w]] = files[w]]
          /\ fileIndex' = [m \in FileNames |->
                             IF files[w][m] # NoFile THEN pkg[w]
                             ELSE IF dbFiles[pkg[w]][m] # NoFile THEN NoAtom
                             ELSE fileIndex[m]]
      BY <1>5 DEF AddToDB
    <2>3. CASE files[w][n] # NoFile
      BY <2>1, <2>2, <2>3 DEF TypeOK, DatabaseOK
    <2>4. CASE files[w][n] = NoFile
      <3>1. fileIndex'[n] = fileIndex[n] /\ dbFiles[pkg[w]][n] = NoFile
        BY <2>2, <2>4
      <3>2. fileIndex[n] \in db /\ dbFiles[fileIndex[n]][n] # NoFile
        BY <3>1
      <3> QED BY <2>2, <3>1, <3>2 DEF TypeOK, DatabaseOK
    <2> QED BY <2>3, <2>4
  <1>6. ASSUME NEW w \in Workers, Worker(w), ~RemoveFromDB(w), ~AddToDB(w)
        PROVE  UNCHANGED dbVars
    BY <1>6 DEF Worker, FindInstalled, FindNone, UninstallHas, UninstallGet,
       RemoveFile, DropVarDB, CheckFile, CheckEnd, CopyFile, CopyNoName,
       CopyFail, TruncateContents, FillContents, WriteSlot, IOFail
  <1>7. ASSUME NEW p \in Paths, UserEdit(p)
        PROVE  UNCHANGED dbVars
    BY <1>7 DEF UserEdit
  <1> QED BY <1>1, <1>2, <1>3, <1>4, <1>5, <1>6, <1>7
          DEF Next, EndCommand, Crash, vars

(***************************************************************************)
(* What the records hold.                                                  *)
(***************************************************************************)
\* A record is empty, a copy of another one, or grows by a file of an image.
LEMMA RecordsKept ==
    ASSUME TypeOK, RecordsAsInstalled, [Next]_vars
    PROVE  RecordsAsInstalled'
  <1> USE NoneListing, ContentAssumption DEF RecordsAsInstalled
  <1>1. CASE UNCHANGED <<vfiles, dbFiles, files>>
    BY <1>1
  <1>2. ASSUME NEW kind \in Commands, NEW choice, BeginCommand(kind, choice)
        PROVE  RecordsAsInstalled'
    <2>1. /\ dbFiles' = [a \in Atoms |-> IF a \in vslot THEN Parsed(vfiles[a]) ELSE None]
          /\ vfiles' = vfiles /\ files' = files
      BY <1>2 DEF BeginCommand, diskVars
    <2>2. \A a \in Atoms, n \in FileNames : Parsed(vfiles[a])[n] # Edited
      BY ParsedRecord DEF TypeOK, DiskOK
    <2> QED BY <2>1, <2>2
  <1>3. ASSUME NoProcess, UNCHANGED diskVars
        PROVE  RecordsAsInstalled'
    BY <1>3 DEF NoProcess, diskVars
  <1>4. ASSUME NEW p \in Paths, UserEdit(p)
        PROVE  RecordsAsInstalled'
    BY <1>4 DEF UserEdit, dbVars, workVars
  <1>5. ASSUME NEW w \in Workers, Worker(w)
        PROVE  RecordsAsInstalled'
    <2> USE <1>5 DEF TypeOK, DiskOK, DatabaseOK, WorkersOK
    <2>1. ASSUME NEW q \in Atoms, FindInstalled(w, q)
          PROVE  RecordsAsInstalled'
      BY <2>1 DEF FindInstalled, diskVars, dbVars
    <2>2. CASE FindNone(w)
      BY <2>2 DEF FindNone, StartMerge, diskVars, dbVars
    <2>3. CASE UninstallGet(w)
      BY <2>3 DEF UninstallGet, diskVars, dbVars, Unmerging
    <2>4. CASE RemoveFromDB(w)
      BY <2>4 DEF RemoveFromDB, StartMerge, diskVars, dbVars
    <2>5. ASSUME NEW err \in BOOLEAN, DropVarDB(w, err)
          PROVE  RecordsAsInstalled'
      BY <2>5 DEF DropVarDB, dbVars
    <2>6. ASSUME NEW n \in FileNames, CopyFile(w, n)
          PROVE  RecordsAsInstalled'
      <3> DEFINE c == ContentOf[pkg[w]][n[1]]
      <3>1. c # Edited
        BY <2>6, ImageContent DEF CopyFile
      <3>2. PICK dest \in Destinations(n, c), hash \in {c, NoHash} :
              files' = [files EXCEPT ![w][dest] = hash]
        BY <2>6 DEF CopyFile
      <3> HIDE DEF c
      <3>3. \A m \in FileNames, v \in Workers : files'[v][m] # Edited
        BY <3>1, <3>2 DEF Records
      <3> QED BY <2>6, <3>3 DEF CopyFile, dbVars
    <2>7. CASE AddToDB(w)
      BY <2>7 DEF AddToDB, diskVars
    <2>8. CASE TruncateContents(w)
      BY <2>8 DEF TruncateContents, dbVars
    <2>9. CASE FillContents(w)
      BY <2>9 DEF FillContents, dbVars
    <2>10. ASSUME \/ UninstallHas(w) \/ CheckEnd(w) \/ WriteSlot(w) \/ IOFail(w)
                  \/ \E n \in FileNames, hashErr \in BOOLEAN : RemoveFile(w, n, hashErr)
                  \/ \E n \in FileNames : CheckFile(w, n) \/ CopyNoName(w, n) \/ CopyFail(w, n)
           PROVE  RecordsAsInstalled'
      <3>1. UNCHANGED <<vfiles, dbFiles, files>>
        BY <2>10 DEF UninstallHas, CheckEnd, WriteSlot, IOFail, RemoveFile,
           CheckFile, CopyNoName, CopyFail, diskVars, dbVars
      <3> QED BY <1>1, <3>1
    <2> QED BY <2>1, <2>2, <2>3, <2>4, <2>5, <2>6, <2>7, <2>8, <2>9, <2>10
            DEF Worker
  <1> QED BY <1>1, <1>2, <1>3, <1>4, <1>5
          DEF Next, EndCommand, Crash, vars, diskVars, dbVars, workVars

\* A record of another process has all its hashes, and a worker records a file
\* without one only where it has just written the file.
LEMMA UnhashedKept ==
    ASSUME TypeOK, UnhashedIsOwn, MemoryEmpty, [Next]_vars
    PROVE  UnhashedIsOwn'
  <1> USE NoneListing, ContentAssumption DEF UnhashedIsOwn
  <1>1. CASE UNCHANGED <<fs, dbFiles, files>>
    BY <1>1
  <1>2. ASSUME NEW kind \in Commands, NEW choice, BeginCommand(kind, choice)
        PROVE  UnhashedIsOwn'
    <2>1. /\ dbFiles' = [a \in Atoms |-> IF a \in vslot THEN Parsed(vfiles[a]) ELSE None]
          /\ fs' = fs /\ files' = files /\ files = [w \in Workers |-> None]
      BY <1>2 DEF BeginCommand, diskVars, MemoryEmpty
    <2>2. \A a \in Atoms, n \in FileNames : Parsed(vfiles[a])[n] # NoHash
      BY ParsedRecord DEF TypeOK, DiskOK
    <2> QED BY <2>1, <2>2
  <1>3. ASSUME NoProcess PROVE UnhashedIsOwn'
    BY <1>3 DEF NoProcess
  <1>4. ASSUME NEW p \in Paths, UserEdit(p)
        PROVE  UnhashedIsOwn'
    BY <1>4 DEF UserEdit, dbVars, workVars, MemoryEmpty
  <1>5. ASSUME NEW w \in Workers, Worker(w)
        PROVE  UnhashedIsOwn'
    <2> USE DEF TypeOK, DiskOK, DatabaseOK, WorkersOK
    <2>1. CASE \/ \E q \in Atoms : FindInstalled(w, q)
               \/ FindNone(w) \/ UninstallGet(w)
      BY <2>1 DEF FindInstalled, FindNone, StartMerge, UninstallGet, diskVars, dbVars, Unmerging
    <2>2. CASE RemoveFromDB(w)
      BY <2>2 DEF RemoveFromDB, StartMerge, diskVars, dbVars
    <2>3. ASSUME NEW n \in FileNames, NEW hashErr \in BOOLEAN, RemoveFile(w, n, hashErr)
          PROVE  UnhashedIsOwn'
      BY <2>3 DEF RemoveFile, dbVars, Listing
    <2>4. ASSUME NEW n \in FileNames, CopyFile(w, n)
          PROVE  UnhashedIsOwn'
      <3> DEFINE c == ContentOf[pkg[w]][n[1]]
      <3>1. c # Edited
        BY <2>4, ImageContent DEF CopyFile
      <3>2. PICK dest \in Destinations(n, c), hash \in {c, NoHash} :
              /\ fs' = [fs EXCEPT ![dest] = c]
              /\ files' = [files EXCEPT ![w][dest] = hash]
        BY <2>4 DEF CopyFile
      <3>3. dbFiles' = dbFiles
        BY <2>4 DEF CopyFile, dbVars
      <3> HIDE DEF c
      <3> QED BY <3>1, <3>2, <3>3 DEF Listing, Records
    <2>5. ASSUME NEW n \in FileNames, CopyFail(w, n)
          PROVE  UnhashedIsOwn'
      <3>1. PICK dest \in Destinations(n, ContentOf[pkg[w]][n[1]]),
                 left \in {Partial, ContentOf[pkg[w]][n[1]]} : fs' = [fs EXCEPT ![dest] = left]
        BY <2>5 DEF CopyFail
      <3>2. left # Edited
        BY <2>5, ImageContent DEF CopyFail
      <3> QED BY <2>5, <3>1, <3>2 DEF CopyFail, dbVars, Listing
    <2>6. CASE AddToDB(w)
      BY <2>6 DEF AddToDB, diskVars
    <2>7. CASE \/ UninstallHas(w) \/ CheckEnd(w) \/ WriteSlot(w) \/ IOFail(w)
               \/ TruncateContents(w) \/ FillContents(w)
               \/ \E err \in BOOLEAN : DropVarDB(w, err)
               \/ \E n \in FileNames : CheckFile(w, n) \/ CopyNoName(w, n)
      <3>1. UNCHANGED <<fs, dbFiles, files>>
        BY <2>7 DEF UninstallHas, CheckEnd, WriteSlot, IOFail, TruncateContents, FillContents,
           DropVarDB, CheckFile, CopyNoName, diskVars, dbVars
      <3> QED BY <1>1, <3>1
    <2> QED BY <1>5, <2>1, <2>2, <2>3, <2>4, <2>5, <2>6, <2>7 DEF Worker
  <1> QED BY <1>1, <1>2, <1>3, <1>4, <1>5
          DEF Next, EndCommand, Crash, vars, diskVars, dbVars, workVars

\* A worker has work only while a command runs, and leaves the command to it.
LEMMA CommandRuns ==
    ASSUME MemoryEmpty, NEW w \in Workers, Worker(w)
    PROVE  command # "none" /\ command' = command
  <1>1. command # "none"
    BY DEF MemoryEmpty, Worker, FindInstalled, FindNone, UninstallHas, UninstallGet, RemoveFile,
       RemoveFromDB, DropVarDB, CheckFile, CheckEnd, CopyFile, CopyNoName, CopyFail, AddToDB,
       TruncateContents, FillContents, WriteSlot, IOFail, Rewriting
  <1>2. command' = command
    BY DEF Worker, FindInstalled, FindNone, UninstallHas, UninstallGet, RemoveFile,
       RemoveFromDB, DropVarDB, CheckFile, CheckEnd, CopyFile, CopyNoName, CopyFail, AddToDB,
       TruncateContents, FillContents, WriteSlot, IOFail, OnlyWorker, FailsIf, OnlyFails
  <1> QED BY <1>1, <1>2

\* The end of a process empties the memory.
LEMMA MemoryKept ==
    ASSUME TypeOK, MemoryEmpty, [Next]_vars
    PROVE  MemoryEmpty'
  <1>1. CASE UNCHANGED vars
    BY <1>1 DEF MemoryEmpty, vars, dbVars, workVars
  <1>2. ASSUME NEW kind \in Commands, NEW choice, BeginCommand(kind, choice)
        PROVE  MemoryEmpty'
    BY <1>2, CommandsAssumption DEF BeginCommand, MemoryEmpty
  <1>3. CASE NoProcess
    BY <1>3 DEF NoProcess, MemoryEmpty
  <1>4. CASE \E p \in Paths : UserEdit(p)
    BY <1>4 DEF UserEdit, MemoryEmpty, dbVars, workVars
  <1>5. ASSUME NEW w \in Workers, Worker(w)
        PROVE  MemoryEmpty'
    BY <1>5, CommandRuns DEF MemoryEmpty
  <1> QED BY <1>1, <1>2, <1>3, <1>4, <1>5 DEF Next, EndCommand, Crash

(***************************************************************************)
(* The inductive invariant and the theorems.                               *)
(***************************************************************************)
\* The empty machine satisfies the invariant.
LEMMA InitIndInv == Init => IndInv
  BY InitTypes, NoneListing, ContentAssumption
     DEF Init, IndInv, IndexSound, RecordsAsInstalled, UnhashedIsOwn, MemoryEmpty

\* Every step keeps it.
LEMMA NextIndInv == IndInv /\ [Next]_vars => IndInv'
  BY NextTypes, IndexKept, RecordsKept, UnhashedKept, MemoryKept DEF IndInv

\* The invariant holds in every reachable state.
THEOREM Invariance == Spec => []IndInv
  BY InitIndInv, NextIndInv, PTL DEF Spec

\* Types: every variable of the installation machinery keeps its shape, for
\* any number of workers and commands, with crashes and I/O errors.
THEOREM TypeCorrect == Spec => []TypeOK
  <1>1. IndInv => TypeOK
    BY DEF IndInv
  <1> QED BY <1>1, Invariance, PTL

\* WhoOwns never names a package that is not installed or lacks the file.
THEOREM IndexAlwaysSound == Spec => []IndexSound
  <1>1. IndInv => IndexSound
    BY DEF IndInv
  <1> QED BY <1>1, Invariance, PTL

\* One step never loses the administrator's version of a configuration file.
LEMMA EditedStep ==
    ASSUME RootIsSlash, IndInv, [Next]_vars, NEW p \in ConfigPaths,
           fs[<<p, 0>>] = Edited, fs'[<<p, 0>>] # Edited
    PROVE  backup'[<<p, 0>>] = Edited \/ <<p, 0>> \in unhashed'
  <1> DEFINE e == <<p, 0>>
  <1>0. e \in FileNames
    BY PathsAssumption, CfgAssumption DEF FileNames
  <1> USE DEF IndInv, TypeOK, DiskOK, WorkersOK
  <1>1. ASSUME NEW q \in Paths, UserEdit(q)
        PROVE  FALSE
    <2>1. fs' = [fs EXCEPT ![<<q, 0>>] = Edited]
      BY <1>1 DEF UserEdit
    <2> QED BY <2>1, <1>0 DEF Listing
  <1>2. ASSUME NEW w \in Workers, NEW n \in FileNames, NEW hashErr \in BOOLEAN,
               RemoveFile(w, n, hashErr)
        PROVE  backup'[e] = Edited \/ e \in unhashed'
    <2>1. n = e
      BY <1>2, <1>0 DEF RemoveFile, Listing
    <2>2. CASE hashErr
      BY <1>2, <2>1, <2>2 DEF RemoveFile
    <2>3. CASE ~hashErr
      <3>1. Edited # NoFile /\ files[w][e] \notin {NoHash, Edited}
        BY <1>0, ContentAssumption DEF RecordsAsInstalled, UnhashedIsOwn
      <3>2. backup' = [backup EXCEPT ![e] = Edited]
        BY <1>2, <2>1, <2>3, <3>1 DEF RemoveFile
      <3> QED BY <3>2, <1>0 DEF Listing
    <2> QED BY <2>2, <2>3
  <1>3. ASSUME NEW w \in Workers, NEW n \in FileNames,
               CopyFile(w, n) \/ CopyFail(w, n)
        PROVE  FALSE
    <2> DEFINE c == ContentOf[pkg[w]][n[1]]
    <2>1. c # Edited
      BY <1>3, ImageContent DEF CopyFile, CopyFail
    <2>2. \E dest \in Destinations(n, c) : \E x : fs' = [fs EXCEPT ![dest] = x]
      BY <1>3, Zenon DEF CopyFile, CopyFail
    <2>3. e \notin Destinations(n, c)
      BY <2>1, EditedNoDestination
    <2> HIDE DEF c, e
    <2>4. fs'[e] = fs[e]
      BY <2>2, <2>3, <1>0 DEF Listing
    <2> QED BY <2>4 DEF e
  <1>4. ASSUME NEW w \in Workers, Worker(w), UNCHANGED fs
        PROVE  FALSE
    BY <1>4
  <1>5. ASSUME NEW w \in Workers, Worker(w)
        PROVE  \/ UNCHANGED fs
               \/ \E n \in FileNames, hashErr \in BOOLEAN : RemoveFile(w, n, hashErr)
               \/ \E n \in FileNames : CopyFile(w, n) \/ CopyFail(w, n)
    BY <1>5 DEF Worker, FindInstalled, FindNone, UninstallHas, UninstallGet,
       RemoveFromDB, DropVarDB, CheckFile, CheckEnd, CopyNoName, AddToDB,
       TruncateContents, FillContents, WriteSlot, IOFail, diskVars
  <1>6. ASSUME \/ \E kind \in Commands, choice \in [Workers -> Atoms \union {NoAtom}] :
                    BeginCommand(kind, choice)
               \/ EndCommand \/ Crash \/ UNCHANGED vars
        PROVE  UNCHANGED fs
    BY <1>6 DEF BeginCommand, EndCommand, Crash, vars, diskVars
  <1> QED BY <1>1, <1>2, <1>3, <1>4, <1>5, <1>6 DEF Next

\* On "/" no sequence of installations, upgrades, removals, crashes and errors
\* destroys an edited configuration file: it is in its place or in its backup,
\* unless it could not be read when it was unmerged.
THEOREM EditedConfigSurvives ==
    ASSUME RootIsSlash
    PROVE  Spec => UserConfigKept
  <1>1. IndInv /\ [Next]_vars =>
          [\A p \in ConfigPaths :
             LET n == <<p, 0>> IN
             (fs[n] = Edited /\ fs'[n] # Edited) => backup'[n] = Edited \/ n \in unhashed']_vars
    BY EditedStep
  <1> QED BY <1>1, Invariance, PTL DEF Spec, UserConfigKept

(***************************************************************************)
(* What was installed stays installed.                                     *)
(***************************************************************************)
\* The commands and control points of the workers keep to their kind.
LEMMA DutiesKept ==
    ASSUME TypeOK, MemoryEmpty, Duties, [Next]_vars
    PROVE  Duties'
  <1>1. CASE UNCHANGED vars
    BY <1>1 DEF Duties, vars, workVars
  <1>2. ASSUME NEW kind \in Commands, NEW choice \in [Workers -> Atoms \union {NoAtom}],
               BeginCommand(kind, choice)
        PROVE  Duties'
    <2>1. command' = kind /\ pkg' = choice /\ Solution(choice)
      BY <1>2 DEF BeginCommand
    <2>2. \A w \in Workers : wpc'[w] = IF choice[w] = NoAtom THEN "idle"
                                       ELSE IF kind = "uninstall" THEN "has" ELSE "find"
      BY <1>2 DEF BeginCommand
    <2>3. \A v, w \in Workers : v # w /\ choice[v] # NoAtom => choice[v] # choice[w]
      BY <2>1 DEF Solution
    <2> QED BY <2>1, <2>2, <2>3, CommandsAssumption DEF Duties, Rewriting, Unmerging
  <1>3. CASE EndCommand \/ Crash
    <2>1. command' = "none" /\ \A w \in Workers : wpc'[w] = "idle" /\ pkg'[w] = NoAtom
      BY <1>3 DEF EndCommand, Crash, NoProcess
    <2> QED BY <2>1 DEF Duties
  <1>4. CASE \E p \in Paths : UserEdit(p)
    BY <1>4 DEF UserEdit, Duties, workVars
  <1>5. ASSUME NEW w \in Workers, Worker(w)
        PROVE  Duties'
    <2>1. command' = command /\ pkg' = pkg
      BY <1>5 DEF Worker, FindInstalled, FindNone, StartMerge, UninstallHas, UninstallGet, RemoveFile,
         RemoveFromDB, DropVarDB, CheckFile, CheckEnd, CopyFile, CopyNoName, CopyFail, AddToDB,
         TruncateContents, FillContents, WriteSlot, IOFail, OnlyWorker, FailsIf, OnlyFails
    <2>3. \A v \in Workers : v # w => wpc'[v] = wpc[v]
      BY <1>5 DEF TypeOK, WorkersOK, Worker, FindInstalled, FindNone, StartMerge, UninstallHas,
         UninstallGet, RemoveFile, RemoveFromDB, DropVarDB, CheckFile, CheckEnd, CopyFile, CopyNoName,
         CopyFail, AddToDB, TruncateContents, FillContents, WriteSlot, IOFail
    <2>4. ASSUME command = "uninstall" PROVE wpc'[w] \in Unmerging \union {"idle", "has", "ok", "error"}
      <3>1. wpc[w] \in Unmerging \union {"idle", "has", "ok", "error"}
        BY <2>4 DEF Duties
      <3> QED BY <1>5, <2>4, <3>1 DEF TypeOK, WorkersOK, Worker, FindInstalled, FindNone, UninstallHas,
         UninstallGet, RemoveFile, RemoveFromDB, DropVarDB, CheckFile, CheckEnd, CopyFile, CopyNoName,
         CopyFail, AddToDB, TruncateContents, FillContents, WriteSlot, IOFail, Unmerging, Rewriting
    <2>5. ASSUME command = "emerge" PROVE wpc'[w] \notin {"has", "drop"} \union Rewriting
      <3>1. wpc[w] \notin {"has", "drop"} \union Rewriting
        BY <2>5 DEF Duties
      <3> QED BY <1>5, <2>5, <3>1 DEF TypeOK, WorkersOK, Worker, FindInstalled, FindNone, StartMerge,
         UninstallHas, UninstallGet, RemoveFile, RemoveFromDB, DropVarDB, CheckFile, CheckEnd, CopyFile,
         CopyNoName, CopyFail, AddToDB, TruncateContents, FillContents, WriteSlot, IOFail, Rewriting
    <2> QED BY <2>1, <2>3, <2>4, <2>5 DEF Duties
  <1> QED BY <1>1, <1>2, <1>3, <1>4, <1>5 DEF Next

\* Without `grpm install` no entry is written a second time.
LEMMA NoRewriting ==
    ASSUME TypeOK, MemoryEmpty, Duties, "install" \notin Commands, NEW w \in Workers
    PROVE  wpc[w] \notin Rewriting /\ command # "install"
  BY CommandsAssumption DEF TypeOK, MemoryEmpty, Duties, Rewriting, Unmerging

\* A step of one worker leaves the command and the other workers alone.
LEMMA WorkerFrame ==
    ASSUME TypeOK, NEW w \in Workers, Worker(w)
    PROVE  /\ command' = command /\ pkg' = pkg
           /\ \A v \in Workers : v # w => /\ wpc'[v] = wpc[v] /\ old'[v] = old[v]
                                          /\ todo'[v] = todo[v] /\ files'[v] = files[v]
  <1> USE DEF TypeOK, WorkersOK, OnlyWorker, FailsIf, OnlyFails
  <1>1. CASE \/ \E q \in Atoms : FindInstalled(w, q)
             \/ FindNone(w) \/ UninstallHas(w) \/ UninstallGet(w)
    BY <1>1 DEF FindInstalled, FindNone, StartMerge, UninstallHas, UninstallGet
  <1>2. CASE \/ \E n \in FileNames, hashErr \in BOOLEAN : RemoveFile(w, n, hashErr)
             \/ RemoveFromDB(w)
             \/ \E err \in BOOLEAN : DropVarDB(w, err)
    BY <1>2 DEF RemoveFile, RemoveFromDB, StartMerge, DropVarDB
  <1>3. CASE \/ \E n \in FileNames : CheckFile(w, n)
             \/ CheckEnd(w)
             \/ \E n \in FileNames : CopyNoName(w, n) \/ CopyFail(w, n)
             \/ AddToDB(w)
    BY <1>3 DEF CheckFile, CheckEnd, CopyNoName, CopyFail, AddToDB
  <1>4. ASSUME NEW n \in FileNames, CopyFile(w, n)
        PROVE  /\ command' = command /\ pkg' = pkg
               /\ \A v \in Workers : v # w => /\ wpc'[v] = wpc[v] /\ old'[v] = old[v]
                                              /\ todo'[v] = todo[v] /\ files'[v] = files[v]
    <2>1. (\E r : files' = [files EXCEPT ![w] = r]) /\ command' = command
      BY <1>4 DEF CopyFile
    <2>2. /\ pkg' = pkg /\ wpc' = wpc /\ old' = old
          /\ todo' = [todo EXCEPT ![w] = @ \ {n}]
      BY <1>4 DEF CopyFile
    <2> QED BY <2>1, <2>2
  <1>5. CASE TruncateContents(w) \/ FillContents(w) \/ WriteSlot(w) \/ IOFail(w)
    BY <1>5 DEF TruncateContents, FillContents, WriteSlot, IOFail
  <1> QED BY <1>1, <1>2, <1>3, <1>4, <1>5 DEF Worker

\* A worker reports no other package than its own as installed, and writes and
\* removes no entry but that of its package and, in uninstall, of what it unmerges.
LEMMA EntryFrame ==
    ASSUME TypeOK, MemoryEmpty, Duties, "install" \notin Commands, NEW w \in Workers, Worker(w)
    PROVE  /\ acked' \subseteq acked \union {pkg[w]}
           /\ command = "uninstall" => acked' \subseteq acked
           /\ \A a \in Atoms :
                 \/ vfiles'[a] = vfiles[a] /\ (a \in vslot => a \in vslot')
                 \/ a = pkg[w] /\ command # "uninstall" /\ (a \in vslot => a \in vslot')
                 \/ a = old[w] /\ wpc[w] = "drop" /\ command = "uninstall"
  <1> USE DEF TypeOK, DiskOK
  <1>0. /\ wpc[w] \notin Rewriting /\ command # "install"
        /\ command = "uninstall" => wpc[w] \notin {"contents", "fill", "slot"}
        /\ wpc[w] = "drop" => command = "uninstall"
    BY NoRewriting, CommandRuns, CommandsAssumption DEF Duties, Unmerging
  <1>1. CASE TruncateContents(w)
    BY <1>0, <1>1 DEF TruncateContents, Rewriting
  <1>2. CASE FillContents(w)
    BY <1>0, <1>2 DEF FillContents, Rewriting
  <1>3. CASE WriteSlot(w)
    BY <1>0, <1>3 DEF WriteSlot, Rewriting
  <1>4. ASSUME NEW err \in BOOLEAN, DropVarDB(w, err)
        PROVE  /\ UNCHANGED acked
               /\ \A a \in Atoms : \/ vfiles'[a] = vfiles[a] /\ (a \in vslot => a \in vslot')
                                   \/ a = old[w] /\ wpc[w] = "drop" /\ command = "uninstall"
    BY <1>0, <1>4 DEF DropVarDB
  <1>5. CASE UninstallGet(w)
    BY <1>5 DEF UninstallGet, diskVars
  <1>6. CASE \/ \E q \in Atoms : FindInstalled(w, q)
             \/ FindNone(w) \/ UninstallHas(w) \/ RemoveFromDB(w) \/ CheckEnd(w) \/ AddToDB(w) \/ IOFail(w)
             \/ \E n \in FileNames, hashErr \in BOOLEAN : RemoveFile(w, n, hashErr)
             \/ \E n \in FileNames : \/ CheckFile(w, n) \/ CopyFile(w, n)
                                     \/ CopyNoName(w, n) \/ CopyFail(w, n)
    <2>1. UNCHANGED <<vfiles, vslot, acked>>
      BY <1>6 DEF FindInstalled, FindNone, UninstallHas, RemoveFromDB, CheckEnd, AddToDB, IOFail,
         RemoveFile, CheckFile, CopyFile, CopyNoName, CopyFail, diskVars
    <2> QED BY <2>1
  <1> QED BY <1>1, <1>2, <1>3, <1>4, <1>5, <1>6 DEF Worker

\* Copying a file keeps what the record already lists of other paths, with a
\* hash or without.
LEMMA CopyLists ==
    ASSUME NEW a \in Atoms, NEW rec \in Records, NEW todo0 \in SUBSET FileNames,
           NEW n \in FileNames, NEW dest \in FileNames, dest[1] = n[1],
           NEW hash, hash = ContentOf[a][n[1]] \/ (MaxErrors > 0 /\ hash = NoHash),
           Lists(rec, a, Image(a) \ todo0)
    PROVE  Lists([rec EXCEPT ![dest] = hash], a, Image(a) \ (todo0 \ {n}))
  <1> DEFINE new == [rec EXCEPT ![dest] = hash]
  <1> SUFFICES ASSUME NEW m \in Image(a) \ (todo0 \ {n})
               PROVE  \E i \in 0..MaxCfg : \/ new[<<m[1], i>>] = ContentOf[a][m[1]]
                                           \/ MaxErrors > 0 /\ new[<<m[1], i>>] = NoHash
    BY DEF Lists
  <1>1. dest \in DOMAIN rec /\ dest[2] \in 0..MaxCfg /\ dest = <<dest[1], dest[2]>>
    BY DEF Records, FileNames
  <1>2. CASE m[1] = n[1]
    <2>1. new[<<m[1], dest[2]>>] = hash
      BY <1>1, <1>2
    <2> QED BY <1>1, <1>2, <2>1
  <1>3. CASE m[1] # n[1]
    <2>1. m \in Image(a) \ todo0
      BY <1>3
    <2>2. PICK i \in 0..MaxCfg : \/ rec[<<m[1], i>>] = ContentOf[a][m[1]]
                                 \/ MaxErrors > 0 /\ rec[<<m[1], i>>] = NoHash
      BY <2>1 DEF Lists
    <2>3. <<m[1], i>> # dest
      BY <1>1, <1>3
    <2>4. <<m[1], i>> \in DOMAIN rec
      BY <2>1, ImageNames DEF Records, FileNames
    <2>5. new[<<m[1], i>>] = rec[<<m[1], i>>]
      BY <2>3, <2>4
    <2> QED BY <2>2, <2>5
  <1> QED BY <1>2, <1>3

\* A destination lies beside the path of its file.
LEMMA DestinationBeside ==
    ASSUME NEW n \in FileNames, NEW c, NEW dest \in Destinations(n, c)
    PROVE  /\ dest \in FileNames /\ dest[1] = n[1]
           /\ dest # n => fs[dest] = NoFile /\ dest[2] # 0
  <1>1. n[1] \in Paths
    BY DEF FileNames
  <1>2. CASE Protected(n, c)
    <2>1. PICK i \in 1..MaxCfg : dest = <<n[1], i>> /\ fs[<<n[1], i>>] = NoFile
      BY <1>2 DEF Destinations
    <2>2. i \in 0..MaxCfg
      BY CfgAssumption
    <2> QED BY <1>1, <2>1, <2>2 DEF FileNames
  <1>3. CASE ~Protected(n, c)
    BY <1>3 DEF Destinations
  <1> QED BY <1>2, <1>3

\* The record that a worker keeps of its own work is complete when it is written.
LEMMA OwnEntryKept ==
    ASSUME IndInv, Duties, EntriesWhole, "install" \notin Commands,
           NEW w \in Workers, Worker(w)
    PROVE  /\ wpc'[w] = "copy" => Lists(files'[w], pkg[w], Image(pkg[w]) \ todo'[w])
           /\ wpc'[w] \in {"contents", "fill", "slot"} => Lists(files'[w], pkg[w], Image(pkg[w]))
           /\ wpc'[w] \in {"fill", "slot"} => pkg[w] \notin acked'
           /\ wpc'[w] = "slot" => vfiles'[pkg[w]] = files'[w]
           /\ wpc'[w] \in {"remove", "drop"} /\ command = "uninstall" => old'[w] \notin acked'
  <1> DEFINE Goal ==
           /\ wpc'[w] = "copy" => Lists(files'[w], pkg[w], Image(pkg[w]) \ todo'[w])
           /\ wpc'[w] \in {"contents", "fill", "slot"} => Lists(files'[w], pkg[w], Image(pkg[w]))
           /\ wpc'[w] \in {"fill", "slot"} => pkg[w] \notin acked'
           /\ wpc'[w] = "slot" => vfiles'[pkg[w]] = files'[w]
           /\ wpc'[w] \in {"remove", "drop"} /\ command = "uninstall" => old'[w] \notin acked'
  <1> USE DEF IndInv, TypeOK, WorkersOK, DiskOK
  <1>0. wpc[w] \notin Rewriting
    BY NoRewriting
  <1>1. CASE \/ \E q \in Atoms : FindInstalled(w, q)
             \/ UninstallHas(w) \/ UninstallGet(w) \/ IOFail(w)
             \/ \E err \in BOOLEAN : DropVarDB(w, err)
             \/ \E n \in FileNames : CheckFile(w, n) \/ CopyNoName(w, n) \/ CopyFail(w, n)
    BY <1>0, <1>1 DEF FindInstalled, UninstallHas, UninstallGet, IOFail, DropVarDB, CheckFile,
       CopyNoName, CopyFail, Rewriting
  <1>2. CASE StartMerge(w)
    <2>1. /\ wpc'[w] \in {"copy", "check"}
          /\ todo'[w] = Image(pkg[w])
      BY <1>2 DEF StartMerge
    <2>2. Lists(files'[w], pkg[w], {})
      BY DEF Lists
    <2>3. Image(pkg[w]) \ todo'[w] = {}
      BY <2>1
    <2> QED BY <2>1, <2>2, <2>3
  <1>3. ASSUME NEW n \in FileNames, NEW hashErr \in BOOLEAN, RemoveFile(w, n, hashErr)
        PROVE  Goal
    BY <1>3 DEF RemoveFile, EntriesWhole
  <1>4. ASSUME RemoveFromDB(w), ~StartMerge(w)
        PROVE  Goal
    BY <1>4 DEF RemoveFromDB, EntriesWhole
  <1>5. CASE CheckEnd(w)
    <2>1. wpc'[w] = "copy" /\ todo'[w] = Image(pkg[w])
      BY <1>5 DEF CheckEnd
    <2>2. Lists(files'[w], pkg[w], {})
      BY DEF Lists
    <2>3. Image(pkg[w]) \ todo'[w] = {}
      BY <2>1
    <2> QED BY <2>1, <2>2, <2>3
  <1>6. ASSUME NEW n \in FileNames, CopyFile(w, n)
        PROVE  Goal
    <2> DEFINE c == ContentOf[pkg[w]][n[1]]
    <2>1. PICK dest \in Destinations(n, c), hash \in {c, NoHash} :
            files' = [files EXCEPT ![w][dest] = hash] /\ FailsIf(hash = NoHash)
      BY <1>6 DEF CopyFile
    <2>2. /\ wpc'[w] = "copy" /\ wpc[w] = "copy"
          /\ todo'[w] = todo[w] \ {n} /\ pkg[w] \in Atoms
      BY <1>6 DEF CopyFile
    <2>3. files'[w] = [files[w] EXCEPT ![dest] = hash]
      BY <2>1
    <2>4. dest \in FileNames /\ dest[1] = n[1]
      BY DestinationBeside
    <2>5. Lists(files[w], pkg[w], Image(pkg[w]) \ todo[w])
      BY <2>2 DEF EntriesWhole
    <2>6. Lists(files'[w], pkg[w], Image(pkg[w]) \ todo'[w])
      <3>1. files[w] \in Records /\ todo[w] \in SUBSET FileNames
        OBVIOUS
      <3>2. pkg[w] \in Atoms
        BY <2>2
      <3>3. hash = ContentOf[pkg[w]][n[1]] \/ (MaxErrors > 0 /\ hash = NoHash)
        BY <2>1, CfgAssumption DEF FailsIf
      <3>4. Lists([files[w] EXCEPT ![dest] = hash], pkg[w], Image(pkg[w]) \ (todo[w] \ {n}))
        BY ONLY <2>4, <2>5, <3>1, <3>2, <3>3, n \in FileNames, CopyLists, Zenon
      <3> QED BY ONLY <2>2, <2>3, <3>4
    <2> QED BY <2>2, <2>6
  <1>7. CASE AddToDB(w)
    <2>1. wpc[w] = "copy" /\ wpc'[w] = "contents" /\ files' = files /\ todo[w] = {}
      BY <1>7 DEF AddToDB
    <2>2. Lists(files[w], pkg[w], Image(pkg[w]) \ {})
      BY <2>1 DEF EntriesWhole
    <2>3. Image(pkg[w]) \ {} = Image(pkg[w])
      OBVIOUS
    <2>4. Lists(files'[w], pkg[w], Image(pkg[w]))
      BY <2>1, <2>2, <2>3
    <2> QED BY <2>1, <2>4
  <1>8. CASE TruncateContents(w)
    BY <1>0, <1>8 DEF TruncateContents, EntriesWhole, Rewriting
  <1>9. CASE FillContents(w)
    BY <1>0, <1>9 DEF FillContents, EntriesWhole, Rewriting
  <1>10. CASE WriteSlot(w)
    BY <1>0, <1>10, NoRewriting DEF WriteSlot, Rewriting
  <1>11. FindNone(w) => StartMerge(w)
    BY DEF FindNone
  <1> QED BY <1>1, <1>2, <1>3, <1>4, <1>5, <1>6, <1>7, <1>8, <1>9, <1>10, <1>11 DEF Worker

\* So do the records of the others.
LEMMA EntriesKept ==
    ASSUME IndInv, Duties, EntriesWhole, "install" \notin Commands, [Next]_vars
    PROVE  EntriesWhole'
  <1> USE DEF IndInv, TypeOK, WorkersOK
  <1>1. ASSUME NEW w \in Workers, Worker(w)
        PROVE  EntriesWhole'
    <2>1. /\ command' = command /\ pkg' = pkg
          /\ \A v \in Workers : v # w => /\ wpc'[v] = wpc[v] /\ old'[v] = old[v]
                                         /\ todo'[v] = todo[v] /\ files'[v] = files[v]
      BY <1>1, WorkerFrame
    <2>2. ASSUME NEW v \in Workers, v # w
          PROVE  /\ wpc'[v] = "copy" => Lists(files'[v], pkg'[v], Image(pkg'[v]) \ todo'[v])
                 /\ wpc'[v] \in {"contents", "fill", "slot"} => Lists(files'[v], pkg'[v], Image(pkg'[v]))
                 /\ wpc'[v] \in {"fill", "slot"} => pkg'[v] \notin acked'
                 /\ wpc'[v] = "slot" => vfiles'[pkg'[v]] = files'[v]
                 /\ wpc'[v] \in {"remove", "drop"} /\ command' = "uninstall" => old'[v] \notin acked'
      <3>1. /\ acked' \subseteq acked \union {pkg[w]}
            /\ command = "uninstall" => acked' \subseteq acked
            /\ \A a \in Atoms : \/ vfiles'[a] = vfiles[a]
                                \/ a = pkg[w]
                                \/ command = "uninstall"
        BY <1>1, EntryFrame
      <3>2. wpc[v] # "idle" => pkg[v] \in Atoms /\ pkg[v] # pkg[w]
        BY <2>2, AtomsAssumption DEF Duties
      <3>3. wpc[v] = "slot" => command # "uninstall"
        BY DEF Duties, Unmerging
      <3>4. wpc[v] \in {"fill", "slot"} => pkg[v] \notin acked'
        BY <3>1, <3>2 DEF EntriesWhole
      <3>5. wpc[v] = "slot" => vfiles'[pkg[v]] = files[v]
        BY <3>1, <3>2, <3>3 DEF EntriesWhole
      <3>6. wpc[v] \in {"remove", "drop"} /\ command = "uninstall" => old[v] \notin acked'
        BY <3>1 DEF EntriesWhole
      <3> QED BY <2>1, <2>2, <3>4, <3>5, <3>6 DEF EntriesWhole
    <2> QED BY <1>1, <2>1, <2>2, OwnEntryKept DEF EntriesWhole
  <1>2. CASE \E kind \in Commands, choice \in [Workers -> Atoms \union {NoAtom}] :
                BeginCommand(kind, choice)
    <2>1. \A w \in Workers : wpc'[w] \in {"idle", "has", "find"}
      BY <1>2 DEF BeginCommand
    <2> QED BY <2>1 DEF EntriesWhole
  <1>3. CASE EndCommand \/ Crash
    <2>1. \A w \in Workers : wpc'[w] = "idle"
      BY <1>3 DEF EndCommand, Crash, NoProcess
    <2> QED BY <2>1 DEF EntriesWhole
  <1>4. CASE UNCHANGED <<vfiles, command, workVars, acked>>
    BY <1>4 DEF EntriesWhole, workVars
  <1> QED BY <1>1, <1>2, <1>3, <1>4 DEF Next, UserEdit, vars, diskVars

\* Nothing takes away the entry of a reported installation but its own
\* unmerge or rewrite.
LEMMA DurableKept ==
    ASSUME IndInv, Duties, EntriesWhole, Durable, "install" \notin Commands, [Next]_vars
    PROVE  Durable'
  <1> USE DEF IndInv, TypeOK, DiskOK
  <1>1. ASSUME NEW w \in Workers, Worker(w)
        PROVE  Durable'
    <2> SUFFICES ASSUME NEW a \in acked'
                 PROVE  a \in vslot' /\ Lists(vfiles'[a], a, Image(a))
      BY DEF Durable
    <2>0. wpc[w] \notin Rewriting /\ command # "install" /\ a \in Atoms
      BY NoRewriting, NextTypes
    <2>1. /\ acked' \subseteq acked \union {pkg[w]}
          /\ \/ vfiles'[a] = vfiles[a] /\ (a \in vslot => a \in vslot')
             \/ a = pkg[w] /\ (a \in vslot => a \in vslot')
             \/ a = old[w] /\ wpc[w] = "drop" /\ command = "uninstall"
      BY <1>1, <2>0, EntryFrame
    <2>2. CASE a \in acked /\ vfiles'[a] = vfiles[a] /\ (a \in vslot => a \in vslot')
      BY <2>2 DEF Durable
    <2>3. ASSUME wpc[w] = "drop"
          PROVE  a \in acked /\ vfiles'[a] = vfiles[a] /\ (a \in vslot => a \in vslot')
      <3>1. PICK err \in BOOLEAN : DropVarDB(w, err)
        BY <1>1, <2>3 DEF Worker, FindInstalled, FindNone, UninstallHas, UninstallGet, RemoveFile,
           RemoveFromDB, CheckFile, CheckEnd, CopyFile, CopyNoName, CopyFail, AddToDB,
           TruncateContents, FillContents, WriteSlot, IOFail, Rewriting
      <3>2. command = "uninstall" /\ old[w] \notin acked
        BY <1>1, <2>3, CommandsAssumption, CommandRuns, NoRewriting DEF Duties, EntriesWhole
      <3> QED BY <2>0, <3>1, <3>2 DEF DropVarDB
    <2>4. CASE a = pkg[w] /\ ~(a \in acked /\ vfiles'[a] = vfiles[a]) /\ wpc[w] # "drop"
      <3>1. ASSUME TruncateContents(w) PROVE FALSE
        BY <2>4, <3>1 DEF TruncateContents
      <3>2. ASSUME FillContents(w) PROVE FALSE
        BY <2>0, <2>4, <3>2 DEF FillContents, EntriesWhole, Rewriting
      <3>3. CASE WriteSlot(w)
        <4>1. wpc[w] = "slot" /\ vfiles' = vfiles /\ a \in vslot'
          BY <2>0, <2>4, <3>3 DEF WriteSlot, Rewriting
        <4>2. vfiles[a] = files[w] /\ Lists(files[w], a, Image(a))
          BY <2>4, <4>1 DEF EntriesWhole
        <4> QED BY <4>1, <4>2
      <3>4. ASSUME ~TruncateContents(w), ~FillContents(w), ~WriteSlot(w)
            PROVE  acked' \subseteq acked /\ vfiles' = vfiles
        BY <1>1, <2>4, <3>4 DEF Worker, FindInstalled, FindNone, UninstallHas, UninstallGet, RemoveFile,
           RemoveFromDB, DropVarDB, CheckFile, CheckEnd, CopyFile, CopyNoName, CopyFail, AddToDB,
           IOFail, diskVars
      <3> QED BY <2>4, <3>1, <3>2, <3>3, <3>4
    <2> QED BY <2>1, <2>2, <2>3, <2>4
  <1>2. CASE UNCHANGED <<vfiles, vslot, acked>>
    BY <1>2 DEF Durable
  <1> QED BY <1>1, <1>2 DEF Next, BeginCommand, EndCommand, Crash, UserEdit, vars, diskVars

(***************************************************************************)
(* Files of other packages.                                                *)
(***************************************************************************)
\* While a worker has the command for itself, no other worker takes a step.
LEMMA AloneSteps ==
    ASSUME TypeOK, NEW v \in Workers, NEW w \in Workers, Alone(w), Worker(v)
    PROVE  v = w
  <1> SUFFICES ASSUME v # w PROVE FALSE
    OBVIOUS
  <1>1. wpc[v] = "idle"
    BY AtomsAssumption DEF Alone, TypeOK, WorkersOK
  <1> QED BY <1>1 DEF Worker, FindInstalled, FindNone, UninstallHas, UninstallGet, RemoveFile,
       RemoveFromDB, DropVarDB, CheckFile, CheckEnd, CopyFile, CopyNoName, CopyFail, AddToDB,
       TruncateContents, FillContents, WriteSlot, IOFail, Rewriting

\* The check and the copies of a worker on its own.
LEMMA OwnChecked ==
    ASSUME TypeOK, Checked, ~ForceOpt, NEW w \in Workers, Worker(w)
    PROVE  /\ wpc'[w] \in {"check", "copy"} => todo'[w] \subseteq Image(pkg[w])
           /\ wpc'[w] = "check" /\ Alone(w) =>
                 \A n \in Image(pkg[w]) \ todo'[w] : ~Collides(pkg[w], n)'
           /\ wpc'[w] = "copy" /\ Alone(w) => \A n \in todo'[w] : ~Collides(pkg[w], n)'
  <1> DEFINE Goal ==
           /\ wpc'[w] \in {"check", "copy"} => todo'[w] \subseteq Image(pkg[w])
           /\ wpc'[w] = "check" /\ Alone(w) =>
                 \A n \in Image(pkg[w]) \ todo'[w] : ~Collides(pkg[w], n)'
           /\ wpc'[w] = "copy" /\ Alone(w) => \A n \in todo'[w] : ~Collides(pkg[w], n)'
  <1> USE DEF TypeOK, WorkersOK
  <1>0. pkg' = pkg
    BY WorkerFrame
  <1>1. CASE StartMerge(w)
    <2>1. wpc'[w] = "check" /\ todo'[w] = Image(pkg[w])
      BY <1>1 DEF StartMerge
    <2> QED BY <2>1
  <1>2. ASSUME NEW n \in FileNames, CheckFile(w, n)
        PROVE  Goal
    <2>1. \A m \in FileNames : Collides(pkg[w], m)' = Collides(pkg[w], m)
      BY <1>0, <1>2 DEF CheckFile, Collides, WhoOwns, diskVars, dbVars
    <2>2. CASE Collides(pkg[w], n)
      BY <1>2, <2>2 DEF CheckFile
    <2>3. CASE ~Collides(pkg[w], n)
      <3>1. wpc[w] = "check" /\ wpc'[w] = "check" /\ todo'[w] = todo[w] \ {n} /\ pkg[w] \in Atoms
        BY <1>2, <2>3 DEF CheckFile
      <3>2. Image(pkg[w]) \subseteq FileNames
        BY <3>1, ImageNames
      <3> QED BY <2>1, <2>3, <3>1, <3>2 DEF Checked
    <2> QED BY <2>2, <2>3
  <1>3. CASE CheckEnd(w)
    <2>1. /\ wpc[w] = "check" /\ todo[w] = {} /\ wpc'[w] = "copy"
          /\ todo'[w] = Image(pkg[w]) /\ pkg[w] \in Atoms
      BY <1>3 DEF CheckEnd
    <2>2. \A m \in FileNames : Collides(pkg[w], m)' = Collides(pkg[w], m)
      BY <1>0, <1>3 DEF CheckEnd, Collides, WhoOwns, diskVars, dbVars
    <2>3. Alone(w) => \A m \in Image(pkg[w]) : ~Collides(pkg[w], m)
      BY <2>1 DEF Checked
    <2> QED BY <2>1, <2>2, <2>3, ImageNames
  <1>4. ASSUME NEW n \in FileNames, CopyFile(w, n)
        PROVE  Goal
    <2> DEFINE c == ContentOf[pkg[w]][n[1]]
    <2>1. PICK dest \in Destinations(n, c) : fs' = [fs EXCEPT ![dest] = c]
      BY <1>4, Zenon DEF CopyFile
    <2>2. /\ wpc[w] = "copy" /\ wpc'[w] = "copy" /\ pkg[w] \in Atoms
          /\ todo'[w] = todo[w] \ {n} /\ fileIndex' = fileIndex
      BY <1>4 DEF CopyFile, dbVars
    <2>3. todo[w] \subseteq Image(pkg[w])
      BY <2>2 DEF Checked
    <2>4. ASSUME NEW m \in todo'[w], Alone(w)
          PROVE  ~Collides(pkg[w], m)'
      <3>1. m \in todo[w] /\ m # n
        BY <2>2, <2>4
      <3>2. m[2] = 0
        BY <2>3, <3>1 DEF Image
      <3>3. m # dest
        BY <3>1, <3>2, DestinationBeside
      <3> HIDE DEF c
      <3>4. fs'[m] = fs[m]
        BY <2>1, <3>1, <3>3 DEF DiskOK, Listing
      <3>5. ~Collides(pkg[w], m)
        BY <2>2, <2>4, <3>1 DEF Checked
      <3> QED BY <1>0, <2>2, <3>4, <3>5 DEF Collides, WhoOwns
    <2> QED BY <2>2, <2>3, <2>4
  <1>5. ASSUME wpc'[w] \notin {"check", "copy"}
        PROVE  Goal
    BY <1>5
  <1>6. \/ StartMerge(w) \/ CheckEnd(w)
        \/ \E n \in FileNames : CheckFile(w, n) \/ CopyFile(w, n)
        \/ wpc'[w] \notin {"check", "copy"}
    BY DEF Worker, FindInstalled, FindNone, UninstallHas, UninstallGet, RemoveFile,
       RemoveFromDB, DropVarDB, CopyNoName, CopyFail, AddToDB,
       TruncateContents, FillContents, WriteSlot, IOFail
  <1> QED BY <1>1, <1>2, <1>3, <1>4, <1>5, <1>6

\* What the collision check has passed stays passed.
LEMMA CheckedKept ==
    ASSUME TypeOK, MemoryEmpty, Checked, ~ForceOpt, [Next]_vars
    PROVE  Checked'
  <1>1. ASSUME NEW w \in Workers, Worker(w)
        PROVE  Checked'
    <2>1. pkg' = pkg /\ \A v \in Workers : v # w => wpc'[v] = wpc[v] /\ todo'[v] = todo[v]
      BY <1>1, WorkerFrame
    <2>2. \A v \in Workers : Alone(v)' = Alone(v)
      BY <2>1 DEF Alone
    <2>3. \A v \in Workers : v # w => ~Alone(v)
      BY <1>1, AloneSteps
    <2>4. ASSUME NEW v \in Workers
          PROVE  /\ wpc'[v] \in {"check", "copy"} => todo'[v] \subseteq Image(pkg'[v])
                 /\ wpc'[v] = "check" /\ Alone(v)' =>
                       \A n \in Image(pkg'[v]) \ todo'[v] : ~Collides(pkg[v], n)'
                 /\ wpc'[v] = "copy" /\ Alone(v)' => \A n \in todo'[v] : ~Collides(pkg[v], n)'
      <3>1. CASE v = w
        BY <1>1, <2>1, <2>2, <3>1, OwnChecked
      <3>2. CASE v # w
        BY <2>1, <2>2, <2>3, <3>2 DEF Checked
      <3> QED BY <3>1, <3>2
    <2> QED BY <2>4 DEF Checked
  <1>2. CASE \E kind \in Commands, choice \in [Workers -> Atoms \union {NoAtom}] :
                BeginCommand(kind, choice)
    <2>1. \A w \in Workers : wpc'[w] \notin {"check", "copy"}
      BY <1>2 DEF BeginCommand
    <2> QED BY <2>1 DEF Checked
  <1>3. CASE EndCommand \/ Crash
    <2>1. \A w \in Workers : wpc'[w] \notin {"check", "copy"}
      BY <1>3 DEF EndCommand, Crash, NoProcess
    <2> QED BY <2>1 DEF Checked
  <1>4. ASSUME NEW p \in Paths, UserEdit(p)
        PROVE  Checked'
    <2>1. \A w \in Workers : wpc'[w] \notin {"check", "copy"}
      BY <1>4 DEF UserEdit, workVars, MemoryEmpty
    <2> QED BY <2>1 DEF Checked
  <1>5. CASE UNCHANGED vars
    BY <1>5 DEF vars, diskVars, dbVars, workVars, Checked, Collides, WhoOwns, Alone
  <1> QED BY <1>1, <1>2, <1>3, <1>4, <1>5 DEF Next

\* A worker on its own overwrites no file of another package.
LEMMA ForeignStep ==
    ASSUME RootIsSlash, TypeOK, MemoryEmpty, Checked, [Next]_vars,
           NEW w \in Workers, NEW n \in FileNames,
           wpc[w] = "copy", Alone(w), fs'[n] # fs[n], fs[n] # NoFile
    PROVE  fileIndex[n] = NoAtom \/ NameOf[fileIndex[n]] = NameOf[pkg[w]]
  <1>1. Worker(w)
    <2>1. ASSUME NEW p \in Paths, UserEdit(p) PROVE FALSE
      BY <2>1 DEF UserEdit, MemoryEmpty
    <2>2. \E v \in Workers : Worker(v)
      BY <2>1 DEF Next, BeginCommand, EndCommand, Crash, vars, diskVars
    <2> QED BY <2>2, AloneSteps
  <1>2. PICK m \in FileNames : CopyFile(w, m) \/ CopyFail(w, m)
    BY <1>1 DEF Worker, FindInstalled, FindNone, UninstallHas, UninstallGet, RemoveFile,
       RemoveFromDB, DropVarDB, CheckFile, CheckEnd, CopyNoName, AddToDB,
       TruncateContents, FillContents, WriteSlot, IOFail, diskVars
  <1> DEFINE c == ContentOf[pkg[w]][m[1]]
  <1>3. m \in todo[w] /\ \E dest \in Destinations(m, c) : \E x : fs' = [fs EXCEPT ![dest] = x]
    BY <1>2, Zenon DEF CopyFile, CopyFail
  <1>4. n \in Destinations(m, c)
    <2> HIDE DEF c
    <2> QED BY <1>3 DEF TypeOK, DiskOK, Listing
  <1>5. n = m
    BY <1>4, DestinationBeside
  <1>6. ~Collides(pkg[w], n)
    BY <1>3, <1>5 DEF Checked
  <1> QED BY <1>6 DEF Collides, WhoOwns

(***************************************************************************)
(* The theorems.                                                           *)
(***************************************************************************)
\* The empty machine satisfies what the two arguments above start from.
LEMMA InitKept == Init => Duties /\ EntriesWhole /\ Checked /\ Durable
  BY DEF Init, Duties, EntriesWhole, Checked, Durable

\* vardb.go: once an installation has been reported, every later command finds
\* its complete entry until the package is itself unmerged or written anew, with
\* any number of workers, kills and I/O errors.
THEOREM ReportedIsDurable ==
    ASSUME "install" \notin Commands
    PROVE  Spec => []Durable
  <1> DEFINE Inv == IndInv /\ Duties /\ EntriesWhole /\ Durable
  <1>1. Init => Inv
    BY InitIndInv, InitKept
  <1>2. Inv /\ [Next]_vars => Inv'
    BY NextIndInv, DutiesKept, EntriesKept, DurableKept DEF IndInv
  <1>3. Inv => Durable
    OBVIOUS
  <1> QED BY <1>1, <1>2, <1>3, PTL DEF Spec

\* Neither the entry of a reported installation nor, in a sequential
\* installation on "/" without --force, a file of another package is lost.
THEOREM InstalledStaysInstalled ==
    ASSUME RootIsSlash, ~ForceOpt, "install" \notin Commands
    PROVE  Spec => InstalledKept
  <1> DEFINE Inv == IndInv /\ Checked
  <1>1. Init => Inv
    BY InitIndInv, InitKept
  <1>2. Inv /\ [Next]_vars => Inv'
    BY NextIndInv, CheckedKept DEF IndInv
  <1>3. Inv /\ [Next]_vars =>
          [\A w \in Workers, n \in FileNames :
             (wpc[w] = "copy" /\ Alone(w) /\ fs'[n] # fs[n] /\ fs[n] # NoFile)
               => (fileIndex[n] = NoAtom \/ NameOf[fileIndex[n]] = NameOf[pkg[w]])]_vars
    BY ForeignStep DEF IndInv
  <1>4. Spec => ForeignFilesKept
    BY <1>1, <1>2, <1>3, PTL DEF Spec, ForeignFilesKept
  <1> QED BY <1>4, ReportedIsDurable DEF InstalledKept

=============================================================================
