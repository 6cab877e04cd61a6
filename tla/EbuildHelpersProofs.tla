------------------------- MODULE EbuildHelpersProofs -------------------------
(***************************************************************************)
(* A phase of an ebuild, for every script, tree and failed write: die ends *)
(* it, and the install helpers go where the script last said.              *)
(*                                                                         *)
(* Both rest on what a helper leaves alone.  Every file operation and      *)
(* every helper made of them keeps the state of the helpers well formed,   *)
(* its error among the three, and its destinations and nonfatal mode as    *)
(* they were (Kept).  Loops over arguments and over trees are folds: each  *)
(* of them is an instance of FoldFacts.                                    *)
(***************************************************************************)
EXTENDS EbuildHelpers, FiniteSetTheorems, SequenceTheorems, WellFoundedInduction, TLAPS

Fields == {"fs", "err", "left", "cwd", "insDestTree", "exeDestTree", "docDestTree", "destTree",
           "libDir", "insOpts", "exeOpts", "dirOpts", "nonfatalMode", "lastExitStatus"}

\* A state of the helpers.
Good(s) ==
    /\ s = [x \in Fields |-> s[x]]
    /\ s.err \in {"none", "false", "die"}
    /\ IsTree(s.fs) /\ IsSeq(s.cwd)
    /\ IsSeq(s.insDestTree) /\ IsSeq(s.exeDestTree) /\ IsSeq(s.docDestTree) /\ IsSeq(s.destTree)

\* What the file operations leave alone.
Same(s, t) ==
    /\ t.insDestTree = s.insDestTree /\ t.exeDestTree = s.exeDestTree
    /\ t.docDestTree = s.docDestTree /\ t.destTree = s.destTree
    /\ t.nonfatalMode = s.nonfatalMode

Kept(s, t) == Good(t) /\ Same(s, t)

-----------------------------------------------------------------------------
(* Sequences *)

\* A sequence over any set is a sequence.
LEMMA SeqIntro ==
    ASSUME NEW S, NEW s \in Seq(S)
    PROVE  IsSeq(s)
  BY DEF IsSeq, Range

\* What sequences are made of.
LEMMA SeqParts ==
    ASSUME NEW s, IsSeq(s)
    PROVE  /\ Len(s) \in Nat /\ DOMAIN s = 1..Len(s)
           /\ s \in Seq(Range(s))
  BY DEF IsSeq

\* Appending to a sequence, joining two and cutting one gives a sequence.
LEMMA SeqAppend ==
    ASSUME NEW s, IsSeq(s), NEW x
    PROVE  IsSeq(Append(s, x))
  <1>1. Append(s, x) \in Seq(Range(s) \cup {x})
    BY DEF IsSeq
  <1> QED BY <1>1, SeqIntro

\* Two sequences joined are a sequence.
LEMMA SeqConcat ==
    ASSUME NEW s, NEW t, IsSeq(s), IsSeq(t)
    PROVE  IsSeq(s \o t)
  <1>1. s \in Seq(Range(s) \cup Range(t)) /\ t \in Seq(Range(s) \cup Range(t))
    BY DEF IsSeq
  <1> HIDE DEF IsSeq
  <1>2. s \o t \in Seq(Range(s) \cup Range(t))
    BY <1>1
  <1> QED BY <1>2, SeqIntro

\* A part of a sequence, or all but its last element, is a sequence.
LEMMA SeqCut ==
    ASSUME NEW s, IsSeq(s), NEW m \in 1..(Len(s) + 1), NEW n \in 0..Len(s)
    PROVE  IsSeq(SubSeq(s, m, n)) /\ IsSeq(Front(s))
  <1>1. s \in Seq(Range(s)) /\ Len(s) \in Nat
    BY SeqParts
  <1>2. SubSeq(s, m, n) \in Seq(Range(s))
    BY <1>1
  <1>3. Front(s) \in Seq(Range(s))
    BY <1>1 DEF Front
  <1> QED BY <1>2, <1>3, SeqIntro

\* The same for one name less.
LEMMA SeqFront ==
    ASSUME NEW s, IsSeq(s)
    PROVE  IsSeq(Front(s))
  <1>1. 1 \in 1..(Len(s) + 1) /\ 0 \in 0..Len(s)
    BY SeqParts
  <1> QED BY <1>1, SeqCut

\* The paths that the helpers name are sequences.
LEMMA SeqLiterals ==
    /\ IsSeq(<<>>)
    /\ \A a : IsSeq(<<a>>)
    /\ \A a, b : IsSeq(<<a, b>>)
    /\ \A a, b, c : IsSeq(<<a, b, c>>)
    /\ \A a, b, c, d : IsSeq(<<a, b, c, d>>)
  <1>1. IsSeq(<<>>)
    <2>1. <<>> \in Seq({})
      OBVIOUS
    <2> QED BY <2>1, SeqIntro
  <1>2. ASSUME NEW a PROVE IsSeq(<<a>>)
    <2>1. <<a>> \in Seq({a})
      OBVIOUS
    <2> QED BY <2>1, SeqIntro
  <1>3. ASSUME NEW a, NEW b PROVE IsSeq(<<a, b>>)
    <2>1. <<a, b>> \in Seq({a, b})
      OBVIOUS
    <2> QED BY <2>1, SeqIntro
  <1>4. ASSUME NEW a, NEW b, NEW c PROVE IsSeq(<<a, b, c>>)
    <2>1. <<a, b, c>> \in Seq({a, b, c})
      OBVIOUS
    <2> QED BY <2>1, SeqIntro
  <1>5. ASSUME NEW a, NEW b, NEW c, NEW d PROVE IsSeq(<<a, b, c, d>>)
    <2>1. <<a, b, c, d>> \in Seq({a, b, c, d})
      OBVIOUS
    <2> QED BY <2>1, SeqIntro
  <1> QED BY <1>1, <1>2, <1>3, <1>4, <1>5

\* Names of the script as paths.
LEMMA PathSeq ==
    ASSUME NEW p, IsSeq(p)
    PROVE  /\ IsSeq(InImage(p)) /\ IsSeq(processPath(p)) /\ IsSeq(resolveSourcePath(p))
           /\ \A s : IsSeq(s.cwd) => IsSeq(resolvePath(s, p))
  BY SeqLiterals, SeqConcat DEF InImage, processPath, resolveSourcePath, resolvePath

\* The last name of a path is what it is, and paths grow by names.
LEMMA ArgSeq ==
    ASSUME NEW args, AllPaths(args), args # <<>>
    PROVE  /\ Len(args) \in Nat \ {0} /\ IsSeq(args[1]) /\ IsSeq(Last(args))
           /\ AllPaths(Front(args))
           /\ \A i \in 1..Len(args) : IsSeq(args[i])
  <1>1. args \in Seq(Range(args)) /\ Len(args) \in Nat /\ DOMAIN args = 1..Len(args)
    BY SeqParts DEF AllPaths
  <1>2. Len(args) # 0
    BY <1>1
  <1>3. \A i \in 1..Len(args) : IsSeq(args[i])
    BY <1>1 DEF AllPaths
  <1>4. IsSeq(Front(args)) /\ Front(args) = SubSeq(args, 1, Len(args) - 1)
    BY SeqFront DEF AllPaths, Front
  <1>5. DOMAIN Front(args) = 1..(Len(args) - 1) /\ \A i \in 1..(Len(args) - 1) : Front(args)[i] = args[i]
    BY <1>1, <1>2, <1>4
  <1> QED BY <1>1, <1>2, <1>3, <1>4, <1>5 DEF Last, AllPaths

-----------------------------------------------------------------------------
(* The state of the helpers *)

\* An assignment to a field changes that field.
LEMMA Update ==
    ASSUME NEW s, s = [x \in Fields |-> s[x]], NEW f \in Fields, NEW v, NEW t, t = [s EXCEPT ![f] = v]
    PROVE  /\ t = [x \in Fields |-> t[x]] /\ t[f] = v
           /\ \A x \in Fields : x # f => t[x] = s[x]
  OBVIOUS

\* Nothing done keeps everything, and two operations keep what each keeps.
LEMMA KeptTwice ==
    ASSUME NEW s, NEW t, NEW u
    PROVE  /\ Good(s) => Kept(s, s)
           /\ Kept(s, t) /\ Kept(t, u) => Kept(s, u)
  BY DEF Kept, Same

\* The result of a command, the write that will fail and the tree are not
\* among what is kept.
LEMMA SetErr ==
    ASSUME NEW s, Good(s), NEW e \in {"none", "false", "die"}
    PROVE  /\ Kept(s, [s EXCEPT !.err = e]) /\ [s EXCEPT !.err = e].err = e
           /\ [s EXCEPT !.err = e].fs = s.fs /\ [s EXCEPT !.err = e].left = s.left
  <1> DEFINE t == [s EXCEPT !.err = e]
  <1>1. t = [x \in Fields |-> t[x]] /\ t["err"] = e /\ \A x \in Fields : x # "err" => t[x] = s[x]
    BY Update DEF Good, Fields
  <1> HIDE DEF t
  <1>2. Kept(s, t) /\ t.err = e /\ t.fs = s.fs /\ t.left = s.left
    BY <1>1 DEF Kept, Same, Good, Fields
  <1> QED BY <1>2 DEF t

\* A count of writes is kept apart from everything else.
LEMMA SetLeft ==
    ASSUME NEW s, Good(s), NEW n
    PROVE  /\ Kept(s, [s EXCEPT !.left = n])
           /\ [s EXCEPT !.left = n].err = s.err /\ [s EXCEPT !.left = n].fs = s.fs
  <1> DEFINE t == [s EXCEPT !.left = n]
  <1>1. t = [x \in Fields |-> t[x]] /\ \A x \in Fields : x # "left" => t[x] = s[x]
    BY Update DEF Good, Fields
  <1> HIDE DEF t
  <1>2. Kept(s, t) /\ t.err = s.err /\ t.fs = s.fs
    BY <1>1 DEF Kept, Same, Good, Fields
  <1> QED BY <1>2 DEF t

\* Another tree.
LEMMA SetFs ==
    ASSUME NEW s, Good(s), NEW fs, IsTree(fs)
    PROVE  /\ Kept(s, [s EXCEPT !.fs = fs])
           /\ [s EXCEPT !.fs = fs].err = s.err /\ [s EXCEPT !.fs = fs].fs = fs
  <1> DEFINE t == [s EXCEPT !.fs = fs]
  <1>1. t = [x \in Fields |-> t[x]] /\ t["fs"] = fs /\ \A x \in Fields : x # "fs" => t[x] = s[x]
    BY Update DEF Good, Fields
  <1> HIDE DEF t
  <1>2. Kept(s, t) /\ t.err = s.err /\ t.fs = fs
    BY <1>1 DEF Kept, Same, Good, Fields
  <1> QED BY <1>2 DEF t

\* A command that fails, or answers false.
LEMMA FailKeeps ==
    ASSUME NEW s, Good(s)
    PROVE  Kept(s, Fail(s)) /\ Kept(s, False(s)) /\ ~Ok(Fail(s)) /\ ~Ok(False(s))
  BY SetErr, KeptTwice DEF Fail, False, Ok

\* A system call.  What it leaves is the tree it was to make, or that of
\* before with an error.
LEMMA ChangeKeeps ==
    ASSUME NEW s, Good(s), NEW fs, Ok(s) => IsTree(fs)
    PROVE  Kept(s, Change(s, fs)) /\ (Ok(Change(s, fs)) => Ok(s) /\ Change(s, fs).fs = fs)
  <1>1. CASE ~Ok(s)
    BY <1>1, KeptTwice DEF Change
  <1>2. CASE Ok(s) /\ s.left = 1
    <2>1. Kept(s, [s EXCEPT !.left = 0])
      BY SetLeft
    <2>2. Kept([s EXCEPT !.left = 0], Fail([s EXCEPT !.left = 0])) /\ ~Ok(Fail([s EXCEPT !.left = 0]))
      BY <2>1, FailKeeps DEF Kept
    <2>3. Change(s, fs) = Fail([s EXCEPT !.left = 0])
      BY <1>2 DEF Change
    <2> QED BY <2>1, <2>2, <2>3, KeptTwice
  <1>3. CASE Ok(s) /\ s.left # 1
    <2> DEFINE t == [s EXCEPT !.fs = fs]
               n == IF s.left = 0 THEN 0 ELSE s.left - 1
    <2>1. Kept(s, t) /\ t.err = s.err /\ t.fs = fs
      BY <1>3, SetFs
    <2>2. Kept(t, [t EXCEPT !.left = n]) /\ [t EXCEPT !.left = n].err = t.err /\ [t EXCEPT !.left = n].fs = t.fs
      BY <2>1, SetLeft DEF Kept
    <2>3. t.left = s.left
      BY DEF Good, Fields
    <2>4. Change(s, fs) = [s EXCEPT !.fs = fs, !.left = IF @ = 0 THEN 0 ELSE @ - 1]
      BY <1>3 DEF Change
    <2>5. Change(s, fs) = [t EXCEPT !.left = n]
      BY <2>3, <2>4
    <2> HIDE DEF t, n
    <2> QED BY <1>3, <2>1, <2>2, <2>5, KeptTwice DEF Ok
  <1> QED BY <1>1, <1>2, <1>3

-----------------------------------------------------------------------------
(* Trees *)

\* Files, directories and links to paths are nodes.
LEMMA Nodes ==
    /\ \A data, mode : IsNode(FileOf(data, mode)) /\ IsNode(DirOf(mode))
    /\ \A target : IsSeq(target) => IsNode(LinkTo(target))
  <1>1. ASSUME NEW data, NEW mode PROVE IsNode(FileOf(data, mode)) /\ IsNode(DirOf(mode))
    BY DEF IsNode, FileOf, DirOf
  <1>2. ASSUME NEW target, IsSeq(target) PROVE IsNode(LinkTo(target))
    BY <1>2 DEF IsNode, LinkTo
  <1> QED BY <1>1, <1>2

\* A tree put over another is a tree.
LEMMA TreeOver ==
    ASSUME NEW f, IsTree(f), NEW g, IsTree(g)
    PROVE  IsTree(Over(f, g))
  <1>1. IsFiniteSet(DOMAIN f \cup DOMAIN g)
    BY FS_Union DEF IsTree
  <1>2. DOMAIN Over(f, g) = DOMAIN f \cup DOMAIN g
    BY DEF Over
  <1>3. \A q \in DOMAIN f \cup DOMAIN g : Over(f, g)[q] = IF q \in DOMAIN f THEN f[q] ELSE g[q]
    BY DEF Over
  <1>4. Over(f, g) = [q \in DOMAIN Over(f, g) |-> Over(f, g)[q]]
    BY DEF Over
  <1> QED BY <1>1, <1>2, <1>3, <1>4 DEF IsTree

\* Finitely many paths with a node each are a tree.
LEMMA TreeOf ==
    ASSUME NEW S, IsFiniteSet(S), NEW f, \A q \in S : IsSeq(q) /\ IsNode(f[q])
    PROVE  IsTree([q \in S |-> f[q]])
  BY DEF IsTree

\* The same with one node for all.
LEMMA TreeOfOne ==
    ASSUME NEW S, IsFiniteSet(S), NEW n, IsNode(n), \A q \in S : IsSeq(q)
    PROVE  IsTree([q \in S |-> n])
  BY DEF IsTree

\* A node put in its place.
LEMMA TreePut ==
    ASSUME NEW fs, IsTree(fs), NEW p, IsSeq(p), NEW n, IsNode(n)
    PROVE  /\ IsTree(Put(fs, p, n)) /\ p \in DOMAIN Put(fs, p, n) /\ Put(fs, p, n)[p] = n
  <1>1. IsTree([q \in {p} |-> n])
    <2>1. IsFiniteSet({p})
      BY FS_Singleton
    <2> QED BY <2>1, TreeOfOne
  <1>2. Put(fs, p, n)[p] = n /\ p \in DOMAIN Put(fs, p, n)
    BY DEF Put, Over
  <1> QED BY <1>1, <1>2, TreeOver DEF Put

\* A tree with nodes taken away.
LEMMA TreeWithout ==
    ASSUME NEW fs, IsTree(fs), NEW gone
    PROVE  IsTree(Without(fs, gone))
  <1>1. IsFiniteSet(DOMAIN fs \ gone)
    BY FS_Difference DEF IsTree
  <1>2. \A q \in DOMAIN fs \ gone : IsSeq(q) /\ IsNode(fs[q])
    BY DEF IsTree
  <1> QED BY <1>1, <1>2, TreeOf DEF Without

\* New content or permissions for a node; a link keeps a path.
LEMMA TreeEdit ==
    ASSUME NEW fs, IsTree(fs), NEW q, NEW v
    PROVE  /\ (q \in DOMAIN fs /\ fs[q].kind = "link" => IsSeq(v)) => IsTree([fs EXCEPT ![q].data = v])
           /\ IsTree([fs EXCEPT ![q].mode = v])
  <1>1. ASSUME q \in DOMAIN fs /\ fs[q].kind = "link" => IsSeq(v) PROVE IsTree([fs EXCEPT ![q].data = v])
    <2> DEFINE g == [fs EXCEPT ![q].data = v]
               n == [fs[q] EXCEPT !.data = v]
    <2>1. DOMAIN g = DOMAIN fs /\ g = [p \in DOMAIN g |-> g[p]]
      BY DEF IsTree
    <2>2. \A p \in DOMAIN fs : g[p] = IF p = q THEN n ELSE fs[p]
      OBVIOUS
    <2>3. q \in DOMAIN fs => IsNode(n)
      BY <1>1 DEF IsTree, IsNode
    <2> HIDE DEF g, n
    <2>4. IsTree(g)
      BY <2>1, <2>2, <2>3 DEF IsTree
    <2> QED BY <2>4 DEF g
  <1>2. IsTree([fs EXCEPT ![q].mode = v])
    <2> DEFINE g == [fs EXCEPT ![q].mode = v]
               n == [fs[q] EXCEPT !.mode = v]
    <2>1. DOMAIN g = DOMAIN fs /\ g = [p \in DOMAIN g |-> g[p]]
      BY DEF IsTree
    <2>2. \A p \in DOMAIN fs : g[p] = IF p = q THEN n ELSE fs[p]
      OBVIOUS
    <2>3. q \in DOMAIN fs => IsNode(n)
      BY DEF IsTree, IsNode
    <2> HIDE DEF g, n
    <2>4. IsTree(g)
      BY <2>1, <2>2, <2>3 DEF IsTree
    <2> QED BY <2>4 DEF g
  <1> QED BY <1>1, <1>2

-----------------------------------------------------------------------------
(* Paths of links, and the walk of a tree *)

Named(x, p) == IsSeq(p)
Listed(x, w) == AllPaths(w)
ResolveFold == INSTANCE FoldFacts WITH
    op <- LAMBDA a, b, c, p, n: IF n = ".." THEN Front(p) ELSE Append(p, n), P <- Named

\* A relative name leads from a path to a path.
LEMMA ResolveSeq ==
    ASSUME NEW dir, IsSeq(dir), NEW rel, IsSeq(rel)
    PROVE  IsSeq(Resolve(dir, rel))
  <1>1. Resolve(dir, rel) = ResolveFold!Run(0, 0, 0, dir, rel)
    BY DEF Resolve, ResolveFold!Run, FoldLeft, MapThenFoldSet, Max, ResolveFold!Largest
  <1>2. Len(rel) \in Nat /\ DOMAIN rel = 1..Len(rel)
    BY SeqParts
  <1>3. ASSUME NEW p, Named(0, p), NEW i \in 1..Len(rel)
        PROVE  Named(0, IF rel[i] = ".." THEN Front(p) ELSE Append(p, rel[i]))
    BY <1>3, SeqFront, SeqAppend DEF Named
  <1>4. Named(0, dir)
    BY DEF Named
  <1>5. Named(0, ResolveFold!Run(0, 0, 0, dir, rel))
    BY <1>2, <1>3, <1>4, ResolveFold!FoldKeeps
  <1> QED BY <1>1, <1>5 DEF Named

\* An open arrives at a path.
LEMMA FollowSeq ==
    ASSUME NEW fs, IsTree(fs), NEW p, IsSeq(p)
    PROVE  IsSeq(Follow(fs, p))
  <1>1. p \in DOMAIN fs /\ fs[p].kind = "link" => IsSeq(fs[p].data)
    BY DEF IsTree, IsNode
  <1>2. IsSeq(Front(p))
    BY SeqFront
  <1>3. p \in DOMAIN fs /\ fs[p].kind = "link" => IsSeq(Resolve(Front(p), fs[p].data))
    BY <1>1, <1>2, ResolveSeq
  <1> QED BY <1>1, <1>3 DEF Follow

\* The values of a function on a finite set are finitely many.
LEMMA ImageFinite ==
    ASSUME NEW S, IsFiniteSet(S), NEW f
    PROVE  IsFiniteSet({f[x] : x \in S})
  <1> DEFINE T == {f[x] : x \in S}
             g == [x \in S |-> f[x]]
  <1>1. g \in [S -> T] /\ \A t \in T : \E x \in S : g[x] = t
    OBVIOUS
  <1>2. g \in Surjection(S, T)
    BY <1>1, Zenon DEF Surjection
  <1> QED BY <1>2, FS_Surjection

\* A finite set as a sequence.
LEMMA SetSeq ==
    ASSUME NEW S, IsFiniteSet(S), \A q \in S : IsSeq(q)
    PROVE  AllPaths(SetToSeq(S))
  <1>1. Cardinality(S) \in Nat /\ ExistsBijection(1..Cardinality(S), S)
    BY FS_CardinalityType
  <1>2. PICK f : f \in [1..Cardinality(S) -> S] /\ \A a, b \in 1..Cardinality(S) : f[a] = f[b] => a = b
    BY <1>1 DEF ExistsBijection, Bijection, Injection, IsInjective
  <1>3. IsInjective(f)
    BY <1>2 DEF IsInjective
  <1>4. SetToSeq(S) \in [1..Cardinality(S) -> S]
    BY <1>2, <1>3 DEF SetToSeq
  <1>5. SetToSeq(S) \in Seq(S)
    BY <1>1, <1>4
  <1> QED BY <1>1, <1>4, <1>5, SeqIntro DEF AllPaths

\* Finitely many numbers, and at least one, have a largest.
LEMMA FiniteMax ==
    ASSUME NEW S, IsFiniteSet(S), S # {}, S \subseteq Nat
    PROVE  Max(S) \in Nat
  <1>1. PICK n, f : n \in Nat /\ f \in [1..n -> S] /\ \A q \in S : \E i \in 1..n : f[i] = q
    <2>1. Cardinality(S) \in Nat /\ ExistsBijection(1..Cardinality(S), S)
      BY FS_CardinalityType
    <2> QED BY <2>1 DEF ExistsBijection, Bijection, Surjection
  <1> n \in Nat /\ f \in [1..n -> S]
    BY <1>1
  <1> DEFINE G == {k \in 0..n : \E m \in Nat : \A i \in 1..k : f[i] <= m}
  <1>2. 0 \in G
    <2>1. \A i \in 1..0 : f[i] <= 0
      OBVIOUS
    <2> QED BY <1>1, <2>1
  <1>3. ASSUME NEW k \in 0..(n - 1), k \in G PROVE k + 1 \in G
    <2>1. PICK m \in Nat : \A i \in 1..k : f[i] <= m
      BY <1>3
    <2>2. f[k + 1] \in Nat /\ \A i \in 1..(k + 1) : i = k + 1 \/ i \in 1..k
      <3>1. k + 1 \in 1..n
        OBVIOUS
      <3>2. f[k + 1] \in S
        BY <3>1
      <3>3. \A i \in 1..(k + 1) : i = k + 1 \/ i \in 1..k
        OBVIOUS
      <3> QED BY <3>2, <3>3
    <2>3. CASE f[k + 1] <= m
      BY <2>1, <2>2, <2>3
    <2>4. CASE ~(f[k + 1] <= m)
      <3>1. \A i \in 1..(k + 1) : f[i] <= f[k + 1]
        <4>1. \A i \in 1..k : f[i] \in Nat
          <5>1. \A i \in 1..k : i \in 1..n
            OBVIOUS
          <5> QED BY <5>1
        <4> QED BY <2>1, <2>2, <2>4, <4>1
      <3> QED BY <2>2, <3>1
    <2> QED BY <2>3, <2>4
  <1>4. n \in G
    <2> HIDE DEF G
    <2> QED BY <1>2, <1>3, ResolveFold!UpTo
  <1>5. PICK m \in Nat : \A q \in S : q <= m
    BY <1>1, <1>4
  <1>6. CASE S \subseteq {0}
    <2>1. 0 \in S /\ \A x \in S : 0 >= x
      <3>1. S = {0}
        BY <1>6
      <3> QED BY <3>1
    <2>2. Max(S) \in S
      BY <2>1 DEF Max
    <2> QED BY <2>2
  <1>7. CASE ~(S \subseteq {0})
    <2> DEFINE T == S \ {0}
    <2>1. T \in SUBSET (1..m) /\ T # {}
      BY <1>5, <1>7
    <2>2. ResolveFold!Largest(T) \in T /\ \A x \in T : x <= ResolveFold!Largest(T)
      BY <2>1, ResolveFold!HasMax
    <2> DEFINE y == ResolveFold!Largest(T)
    <2> HIDE DEF y
    <2>3. y \in S /\ y \in Nat /\ \A x \in S : y >= x
      <3>1. y \in T /\ \A x \in T : x <= y
        BY <2>2 DEF y
      <3>2. \A x \in S : x \in Nat /\ (x = 0 \/ x \in T)
        OBVIOUS
      <3> QED BY <3>1, <3>2
    <2>4. Max(S) \in S
      BY <2>3 DEF Max
    <2> QED BY <2>4
  <1> QED BY <1>6, <1>7

WalkFold == INSTANCE FoldFacts WITH
    op <- LAMBDA a, b, c, w, d: w \o SetToSeq({q \in a : Len(q) = d}), P <- Listed

\* What the walk of a tree visits are paths.
LEMMA WalkPaths ==
    ASSUME NEW fs, IsTree(fs), NEW p, IsSeq(p)
    PROVE  AllPaths(Walk(fs, p))
  <1> DEFINE tree == {p} \cup Below(fs, p)
             depth == Max({Len(q) : q \in tree})
             depths == [d \in 1..depth |-> d]
  <1>1. IsFiniteSet(tree) /\ \A q \in tree : IsSeq(q)
    <2>1. IsFiniteSet(Below(fs, p)) /\ \A q \in Below(fs, p) : IsSeq(q)
      <3>1. Below(fs, p) \in SUBSET (DOMAIN fs)
        BY DEF Below
      <3> QED BY <3>1, FS_Subset DEF IsTree
    <2>2. IsFiniteSet({p})
      BY FS_Singleton
    <2> QED BY <2>1, <2>2, FS_Union
  <1>2. depth \in Nat
    <2> DEFINE L == [q \in tree |-> Len(q)]
               S == {L[q] : q \in tree}
    <2>1. IsFiniteSet(S)
      BY <1>1, ImageFinite
    <2>2. S \subseteq Nat /\ S # {}
      BY <1>1, SeqParts
    <2>3. S = {Len(q) : q \in tree}
      OBVIOUS
    <2> HIDE DEF S
    <2> QED BY <2>1, <2>2, <2>3, FiniteMax
  <1> HIDE DEF tree
  <1>3. Walk(fs, p) = WalkFold!Run(tree, 0, 0, <<>>, depths)
    BY DEF Walk, tree, WalkFold!Run, FoldLeft, MapThenFoldSet, Max, WalkFold!Largest
  <1> HIDE DEF depth
  <1>4. ASSUME NEW w, Listed(0, w), NEW i \in 1..depth
        PROVE  Listed(0, w \o SetToSeq({q \in tree : Len(q) = depths[i]}))
    <2> DEFINE S == {q \in tree : Len(q) = depths[i]}
               v == SetToSeq(S)
    <2>1. IsFiniteSet(S) /\ \A q \in S : IsSeq(q)
      <3>1. S \in SUBSET tree
        OBVIOUS
      <3> QED BY <1>1, <3>1, FS_Subset
    <2> HIDE DEF S
    <2>2. AllPaths(v)
      BY <2>1, SetSeq
    <2> HIDE DEF v
    <2>3. AllPaths(w)
      BY <1>4 DEF Listed
    <2>4. IsSeq(w \o v)
      BY <2>2, <2>3, SeqConcat DEF AllPaths
    <2>5. /\ Len(w) \in Nat /\ Len(v) \in Nat /\ Len(w \o v) = Len(w) + Len(v)
          /\ DOMAIN (w \o v) = 1..Len(w \o v) /\ DOMAIN w = 1..Len(w) /\ DOMAIN v = 1..Len(v)
          /\ \A k \in 1..Len(w \o v) : (w \o v)[k] = IF k <= Len(w) THEN w[k] ELSE v[k - Len(w)]
      BY <2>2, <2>3, <2>4, SeqParts DEF AllPaths
    <2>6. ASSUME NEW k \in 1..Len(w \o v) PROVE IsSeq((w \o v)[k])
      <3>1. CASE k <= Len(w)
        BY <2>3, <2>5, <3>1 DEF AllPaths
      <3>2. CASE ~(k <= Len(w))
        <4>1. k - Len(w) \in DOMAIN v
          BY <2>5, <3>2
        <4> QED BY <2>2, <2>5, <3>2, <4>1 DEF AllPaths
      <3> QED BY <3>1, <3>2
    <2>7. AllPaths(w \o v)
      BY <2>4, <2>5, <2>6 DEF AllPaths
    <2> QED BY <2>7 DEF Listed, v, S
  <1>5. Listed(0, <<>>)
    BY SeqLiterals DEF Listed, AllPaths
  <1>6. DOMAIN depths = 1..depth
    OBVIOUS
  <1> HIDE DEF depths
  <1>7. Listed(0, WalkFold!Run(tree, 0, 0, <<>>, depths))
    BY <1>2, <1>4, <1>5, <1>6, WalkFold!FoldKeeps
  <1> QED BY <1>3, <1>7 DEF Listed

-----------------------------------------------------------------------------
(* What the operating system does *)

\* os.MkdirAll makes finitely many directories.
LEMMA MkdirAllKeeps ==
    ASSUME NEW s, Good(s), NEW p, IsSeq(p), NEW mode
    PROVE  Kept(s, MkdirAll(s, p, mode))
  <1> DEFINE path == {SubSeq(p, 1, i) : i \in 1..Len(p)}
             missing == {q \in path : q \notin DOMAIN s.fs}
             made == Over([q \in missing |-> DirOf(mode)], s.fs)
  <1>1. IsFiniteSet(path) /\ \A q \in path : IsSeq(q)
    <2> DEFINE f == [i \in 1..Len(p) |-> SubSeq(p, 1, i)]
    <2>1. Len(p) \in Nat
      BY SeqParts
    <2>2. IsFiniteSet({f[i] : i \in 1..Len(p)})
      <3>1. IsFiniteSet(1..Len(p))
        BY <2>1, FS_Interval
      <3> HIDE DEF f
      <3> QED BY <3>1, ImageFinite
    <2>3. {f[i] : i \in 1..Len(p)} = path
      OBVIOUS
    <2>4. ASSUME NEW i \in 1..Len(p) PROVE IsSeq(SubSeq(p, 1, i))
      <3>1. 1 \in 1..(Len(p) + 1) /\ i \in 0..Len(p)
        BY <2>1
      <3> QED BY <3>1, SeqCut
    <2> QED BY <2>2, <2>3, <2>4
  <1>2. IsTree(made)
    <2>1. missing \in SUBSET path
      OBVIOUS
    <2>2. IsFiniteSet(missing) /\ \A q \in missing : IsSeq(q)
      BY <1>1, <2>1, FS_Subset
    <2>3. IsTree([q \in missing |-> DirOf(mode)])
      <3> HIDE DEF missing
      <3> QED BY <2>2, Nodes, TreeOfOne
    <2> HIDE DEF missing
    <2> QED BY <2>3, TreeOver DEF Good
  <1>3. MkdirAll(s, p, mode) \in {s, Fail(s), Change(s, made)}
    BY DEF MkdirAll
  <1> HIDE DEF made
  <1> QED BY <1>2, <1>3, KeptTwice, FailKeeps, ChangeKeeps

\* An open leaves a file where it was to be, or an error.
LEMMA OpenAtKeeps ==
    ASSUME NEW s, Good(s), NEW q, IsSeq(q), NEW mode
    PROVE  /\ Kept(s, OpenAt(s, q, mode))
           /\ Ok(OpenAt(s, q, mode)) =>
                q \in DOMAIN OpenAt(s, q, mode).fs /\ OpenAt(s, q, mode).fs[q].kind = "file"
  <1> DEFINE n == FileOf(<<"cut">>, IF q \in DOMAIN s.fs THEN s.fs[q].mode ELSE mode)
  <1>1. IsNode(n) /\ n.kind = "file"
    BY Nodes DEF FileOf
  <1>2. OpenAt(s, q, mode) \in {Fail(s), Change(s, Put(s.fs, q, n))}
    BY DEF OpenAt
  <1> HIDE DEF n
  <1>3. IsTree(Put(s.fs, q, n)) /\ q \in DOMAIN Put(s.fs, q, n) /\ Put(s.fs, q, n)[q] = n
    BY <1>1, TreePut DEF Good
  <1>4. /\ Kept(s, Change(s, Put(s.fs, q, n)))
        /\ Ok(Change(s, Put(s.fs, q, n))) => Change(s, Put(s.fs, q, n)).fs = Put(s.fs, q, n)
    BY <1>3, ChangeKeeps
  <1> QED BY <1>1, <1>2, <1>3, <1>4, FailKeeps

\* A file written.
LEMMA WriteFileKeeps ==
    ASSUME NEW s, Good(s), NEW p, IsSeq(p), NEW data, NEW mode
    PROVE  Kept(s, WriteFile(s, p, data, mode))
  <1> DEFINE q == Follow(s.fs, p)
             o == OpenAt(s, q, mode)
  <1>1. IsSeq(q)
    BY FollowSeq DEF Good
  <1> HIDE DEF q
  <1>2. Kept(s, o) /\ (Ok(o) => q \in DOMAIN o.fs /\ o.fs[q].kind = "file")
    BY <1>1, OpenAtKeeps
  <1>3. WriteFile(s, p, data, mode) = Change(o, [o.fs EXCEPT ![q].data = data])
    BY DEF WriteFile, WriteAt, FillAt, q
  <1> HIDE DEF o
  <1>4. Ok(o) => IsTree([o.fs EXCEPT ![q].data = data])
    BY <1>2, TreeEdit DEF Kept, Good
  <1>5. Kept(o, Change(o, [o.fs EXCEPT ![q].data = data]))
    BY <1>2, <1>4, ChangeKeeps DEF Kept
  <1> QED BY <1>2, <1>3, <1>5, KeptTwice

\* A file written after the directory it needs.
LEMMA WriteBelowKeeps ==
    ASSUME NEW s, Good(s), NEW d, IsSeq(d), NEW m, NEW p, IsSeq(p), NEW data, NEW mode
    PROVE  Kept(s, WriteFile(MkdirAll(s, d, m), p, data, mode))
  <1> DEFINE t == MkdirAll(s, d, m)
  <1>1. Kept(s, t)
    BY MkdirAllKeeps
  <1> HIDE DEF t
  <1>2. Kept(t, WriteFile(t, p, data, mode))
    BY <1>1, WriteFileKeeps DEF Kept
  <1>3. Kept(s, WriteFile(t, p, data, mode))
    BY <1>1, <1>2, KeptTwice
  <1> QED BY <1>3 DEF t

\* A link made.
LEMMA SymlinkKeeps ==
    ASSUME NEW s, Good(s), NEW target, IsSeq(target), NEW p, IsSeq(p)
    PROVE  Kept(s, Symlink(s, target, p))
  <1>1. Symlink(s, target, p) \in {Fail(s), Change(s, Put(s.fs, p, LinkTo(target)))}
    BY DEF Symlink
  <1>2. IsTree(Put(s.fs, p, LinkTo(target)))
    BY Nodes, TreePut DEF Good
  <1> QED BY <1>1, <1>2, FailKeeps, ChangeKeeps

\* A name removed if it can be.
LEMMA TryRemoveKeeps ==
    ASSUME NEW s, Good(s), NEW p
    PROVE  Kept(s, TryRemove(s, p))
  <1>1. IsTree(Without(s.fs, {p}))
    BY TreeWithout DEF Good
  <1>2. TryRemove(s, p) \in {s, [s EXCEPT !.fs = Without(s.fs, {p})]}
    BY DEF TryRemove
  <1> QED BY <1>1, <1>2, SetFs, KeptTwice

\* A file, a link or nothing installed.
LEMMA installFileKeeps ==
    ASSUME NEW s, Good(s), NEW src, NEW dst, IsSeq(dst), NEW mode
    PROVE  Kept(s, installFile(s, src, dst, mode))
  <1> DEFINE f(data) == WriteFile(MkdirAll(s, Front(dst), M0755), dst, data, mode)
  <1>1. Kept(s, f(<<"cut">>)) /\ Kept(s, f(s.fs[src].data))
    BY SeqFront, WriteBelowKeeps
  <1>2. installFile(s, src, dst, mode) =
            IF ~Ok(s) THEN s
            ELSE IF src \notin DOMAIN s.fs THEN Fail(s)
            ELSE IF s.fs[src].kind = "link" THEN Symlink(s, s.fs[src].data, dst)
            ELSE IF s.fs[src].kind = "dir" THEN Fail(f(<<"cut">>)) ELSE f(s.fs[src].data)
    BY DEF installFile
  <1> HIDE DEF f
  <1>3. Kept(s, Fail(f(<<"cut">>)))
    BY <1>1, FailKeeps, KeptTwice DEF Kept
  <1>4. src \in DOMAIN s.fs /\ s.fs[src].kind = "link" => IsSeq(s.fs[src].data)
    BY DEF Good, IsTree, IsNode
  <1>5. src \in DOMAIN s.fs /\ s.fs[src].kind = "link" => Kept(s, Symlink(s, s.fs[src].data, dst))
    BY <1>4, SymlinkKeeps
  <1> QED BY <1>1, <1>2, <1>3, <1>5, FailKeeps, KeptTwice

\* A path moved from below src to below dst is a path.
LEMMA MovedSeq ==
    ASSUME NEW p, IsSeq(p), NEW src, IsSeq(src), NEW dst, IsSeq(dst)
    PROVE  IsSeq(Moved(p, src, dst))
  <1>1. Len(p) \in Nat /\ Len(src) \in Nat /\ p \in Seq(Range(p))
    BY SeqParts
  <1>2. IsSeq(SubSeq(p, Len(src) + 1, Len(p)))
    <2>1. SubSeq(p, Len(src) + 1, Len(p)) \in Seq(Range(p))
      BY <1>1
    <2> QED BY <2>1, SeqIntro
  <1> QED BY <1>2, SeqConcat DEF Moved

installDirFold == INSTANCE FoldFacts WITH
    op <- LAMBDA a, b, c, s, p: IF IsDir(s.fs, p) /\ s.fs[p].kind = "dir"
                                THEN MkdirAll(s, Moved(p, a, b), M0755)
                                ELSE installFile(s, p, Moved(p, a, b), c), P <- Kept

\* A directory installed, file by file.
LEMMA installDirKeeps ==
    ASSUME NEW s, Good(s), NEW src, IsSeq(src), NEW dst, IsSeq(dst), NEW mode
    PROVE  Kept(s, installDir(s, src, dst, mode))
  <1> DEFINE w == Walk(s.fs, src)
  <1>1. AllPaths(w)
    BY WalkPaths DEF Good
  <1>2. installDir(s, src, dst, mode) = installDirFold!Run(src, dst, mode, s, w)
    BY DEF installDir, installDirFold!Run, FoldLeft, MapThenFoldSet, Max, installDirFold!Largest
  <1> HIDE DEF w
  <1>3. Len(w) \in Nat /\ DOMAIN w = 1..Len(w) /\ \A i \in 1..Len(w) : IsSeq(w[i])
    BY <1>1, SeqParts DEF AllPaths
  <1>4. ASSUME NEW t, Kept(s, t), NEW i \in 1..Len(w)
        PROVE  Kept(s, IF IsDir(t.fs, w[i]) /\ t.fs[w[i]].kind = "dir"
                       THEN MkdirAll(t, Moved(w[i], src, dst), M0755)
                       ELSE installFile(t, w[i], Moved(w[i], src, dst), mode))
    <2>1. IsSeq(Moved(w[i], src, dst))
      BY <1>3, MovedSeq
    <2>2. Kept(t, MkdirAll(t, Moved(w[i], src, dst), M0755))
      BY <1>4, <2>1, MkdirAllKeeps DEF Kept
    <2>3. Kept(t, installFile(t, w[i], Moved(w[i], src, dst), mode))
      BY <1>4, <2>1, installFileKeeps DEF Kept
    <2> QED BY <1>4, <2>2, <2>3, KeptTwice
  <1>5. Kept(s, s)
    BY KeptTwice
  <1> QED BY <1>2, <1>3, <1>4, <1>5, installDirFold!FoldKeeps

-----------------------------------------------------------------------------
(* The file tools *)

\* The members of a list of paths.
LEMMA PathList ==
    ASSUME NEW w, AllPaths(w)
    PROVE  Len(w) \in Nat /\ DOMAIN w = 1..Len(w) /\ \A i \in 1..Len(w) : IsSeq(w[i])
  BY SeqParts DEF AllPaths

SedTurn(inPlace, b, c, s, f) ==
    LET p == resolvePath(s, f) IN
    IF ~Ok(s) THEN s
    ELSE IF ~IsFile(s.fs, p) THEN Fail(s)
    ELSE IF ~inPlace THEN s
    ELSE WriteFile(s, p, Append(s.fs[Follow(s.fs, p)].data, "sed"), M0644)
SedFold == INSTANCE FoldFacts WITH op <- SedTurn, P <- Kept

\* sed writes the files it is given.
LEMMA SedKeeps ==
    ASSUME NEW s, Good(s), NEW files, AllPaths(files), NEW inPlace
    PROVE  Kept(s, Sed(s, files, inPlace))
  <1>1. Sed(s, files, inPlace) = SedFold!Run(inPlace, 0, 0, s, files)
    BY DEF Sed, SedTurn, SedFold!Run, FoldLeft, MapThenFoldSet, Max, SedFold!Largest
  <1>2. Len(files) \in Nat /\ DOMAIN files = 1..Len(files) /\ \A i \in 1..Len(files) : IsSeq(files[i])
    BY PathList
  <1>3. ASSUME NEW t, Good(t), NEW x, IsSeq(x) PROVE Kept(t, SedTurn(inPlace, 0, 0, t, x))
    <2> DEFINE p == resolvePath(t, x)
               w == WriteFile(t, p, Append(t.fs[Follow(t.fs, p)].data, "sed"), M0644)
    <2>1. IsSeq(p)
      BY <1>3, PathSeq DEF Good
    <2>2. Kept(t, w)
      <3> HIDE DEF p
      <3> QED BY <1>3, <2>1, WriteFileKeeps
    <2>3. SedTurn(inPlace, 0, 0, t, x) \in {t, Fail(t), w}
      BY DEF SedTurn
    <2> HIDE DEF w
    <2> QED BY <1>3, <2>2, <2>3, FailKeeps, KeptTwice
  <1>4. ASSUME NEW t, Kept(s, t), NEW i \in 1..Len(files) PROVE Kept(s, SedTurn(inPlace, 0, 0, t, files[i]))
    BY <1>2, <1>3, <1>4, KeptTwice DEF Kept
  <1>5. Kept(s, s)
    BY KeptTwice
  <1>6. Kept(s, SedFold!Run(inPlace, 0, 0, s, files))
    BY <1>2, <1>4, <1>5, SedFold!FoldKeeps
  <1> QED BY <1>1, <1>6

CatTurn(a, b, c, s, f) ==
    IF IsFile(s.fs, processPath(f)) THEN s ELSE Fail(s)
CatFold == INSTANCE FoldFacts WITH op <- CatTurn, P <- Kept

\* cat and grep write nothing.
LEMMA CatKeeps ==
    ASSUME NEW s, Good(s), NEW files, AllPaths(files)
    PROVE  Kept(s, Cat(s, files))
  <1>1. Cat(s, files) = CatFold!Run(0, 0, 0, s, files)
    BY DEF Cat, CatTurn, CatFold!Run, FoldLeft, MapThenFoldSet, Max, CatFold!Largest
  <1>2. Len(files) \in Nat /\ DOMAIN files = 1..Len(files) /\ \A i \in 1..Len(files) : IsSeq(files[i])
    BY PathList
  <1>3. ASSUME NEW t, Good(t), NEW x, IsSeq(x) PROVE Kept(t, CatTurn(0, 0, 0, t, x))
    <2>1. CatTurn(0, 0, 0, t, x) \in {t, Fail(t)}
      BY DEF CatTurn
    <2> QED BY <1>3, <2>1, FailKeeps, KeptTwice
  <1>4. ASSUME NEW t, Kept(s, t), NEW i \in 1..Len(files) PROVE Kept(s, CatTurn(0, 0, 0, t, files[i]))
    BY <1>2, <1>3, <1>4, KeptTwice DEF Kept
  <1>5. Kept(s, s)
    BY KeptTwice
  <1>6. Kept(s, CatFold!Run(0, 0, 0, s, files))
    BY <1>2, <1>4, <1>5, CatFold!FoldKeeps
  <1> QED BY <1>1, <1>6

MkdirTurn(createParents, b, c, s, d) ==
    LET p == processPath(d) IN
    IF createParents THEN MkdirAll(s, p, M0755)
    ELSE IF Ok(s) /\ (p \in DOMAIN s.fs \/ ~IsDir(s.fs, Front(p))) THEN Fail(s)
    ELSE Change(s, Put(s.fs, p, DirOf(M0755)))
MkdirFold == INSTANCE FoldFacts WITH op <- MkdirTurn, P <- Kept

\* mkdir makes directories.
LEMMA MkdirKeeps ==
    ASSUME NEW s, Good(s), NEW dirs, AllPaths(dirs), NEW createParents
    PROVE  Kept(s, Mkdir(s, dirs, createParents))
  <1>1. Mkdir(s, dirs, createParents) = MkdirFold!Run(createParents, 0, 0, s, dirs)
    BY DEF Mkdir, MkdirTurn, MkdirFold!Run, FoldLeft, MapThenFoldSet, Max, MkdirFold!Largest
  <1>2. Len(dirs) \in Nat /\ DOMAIN dirs = 1..Len(dirs) /\ \A i \in 1..Len(dirs) : IsSeq(dirs[i])
    BY PathList
  <1>3. ASSUME NEW t, Good(t), NEW x, IsSeq(x) PROVE Kept(t, MkdirTurn(createParents, 0, 0, t, x))
    <2> DEFINE p == processPath(x)
               w == Change(t, Put(t.fs, p, DirOf(M0755)))
               m == MkdirAll(t, p, M0755)
    <2>1. IsSeq(p)
      BY <1>3, PathSeq
    <2>2. MkdirTurn(createParents, 0, 0, t, x) \in {m, Fail(t), w}
      BY DEF MkdirTurn
    <2> HIDE DEF p
    <2>3. Kept(t, m)
      BY <1>3, <2>1, MkdirAllKeeps
    <2>4. IsTree(Put(t.fs, p, DirOf(M0755)))
      BY <1>3, <2>1, Nodes, TreePut DEF Good
    <2>5. Kept(t, w)
      BY <1>3, <2>4, ChangeKeeps
    <2> HIDE DEF w, m
    <2> QED BY <1>3, <2>2, <2>3, <2>5, FailKeeps
  <1>4. ASSUME NEW t, Kept(s, t), NEW i \in 1..Len(dirs) PROVE Kept(s, MkdirTurn(createParents, 0, 0, t, dirs[i]))
    BY <1>2, <1>3, <1>4, KeptTwice DEF Kept
  <1>5. Kept(s, s)
    BY KeptTwice
  <1>6. Kept(s, MkdirFold!Run(createParents, 0, 0, s, dirs))
    BY <1>2, <1>4, <1>5, MkdirFold!FoldKeeps
  <1> QED BY <1>1, <1>6

RmTurn(recursive, force, c, s, t) ==
    LET p == resolvePath(s, t)
        bad == ~recursive /\ (p \notin DOMAIN s.fs \/ Below(s.fs, p) # {})
        done == Change(s, Without(s.fs, {p} \cup Below(s.fs, p)))
    IN CASE ~Ok(s) -> s
         [] Ok(s) /\ bad -> IF force THEN s ELSE Fail(s)
         [] OTHER -> IF force THEN [done EXCEPT !.err = "none"] ELSE done
RmFold == INSTANCE FoldFacts WITH op <- RmTurn, P <- Kept

\* rm takes names away; with -f an error is forgotten.
LEMMA RmKeeps ==
    ASSUME NEW s, Good(s), NEW targets, AllPaths(targets), NEW recursive, NEW force
    PROVE  Kept(s, Rm(s, targets, recursive, force))
  <1>1. Rm(s, targets, recursive, force) = RmFold!Run(recursive, force, 0, s, targets)
    BY DEF Rm, RmTurn, RmFold!Run, FoldLeft, MapThenFoldSet, Max, RmFold!Largest
  <1>2. Len(targets) \in Nat /\ DOMAIN targets = 1..Len(targets) /\ \A i \in 1..Len(targets) : IsSeq(targets[i])
    BY PathList
  <1>3. ASSUME NEW t, Good(t), NEW x, IsSeq(x) PROVE Kept(t, RmTurn(recursive, force, 0, t, x))
    <2> DEFINE p == resolvePath(t, x)
               rest == Without(t.fs, {p} \cup Below(t.fs, p))
               w == Change(t, rest)
    <2>1. RmTurn(recursive, force, 0, t, x) \in {t, Fail(t), [w EXCEPT !.err = "none"], w}
      BY DEF RmTurn
    <2>2. IsTree(rest)
      BY <1>3, TreeWithout DEF Good
    <2> HIDE DEF rest
    <2>3. Kept(t, w)
      BY <1>3, <2>2, ChangeKeeps
    <2> HIDE DEF w
    <2>4. Kept(w, [w EXCEPT !.err = "none"])
      BY <2>3, SetErr DEF Kept
    <2>5. Kept(t, [w EXCEPT !.err = "none"])
      BY <2>3, <2>4, KeptTwice
    <2> QED BY <1>3, <2>1, <2>3, <2>5, FailKeeps, KeptTwice
  <1>4. ASSUME NEW t, Kept(s, t), NEW i \in 1..Len(targets) PROVE Kept(s, RmTurn(recursive, force, 0, t, targets[i]))
    BY <1>2, <1>3, <1>4, KeptTwice DEF Kept
  <1>5. Kept(s, s)
    BY KeptTwice
  <1>6. Kept(s, RmFold!Run(recursive, force, 0, s, targets))
    BY <1>2, <1>4, <1>5, RmFold!FoldKeeps
  <1> QED BY <1>1, <1>6

\* A file copied.
LEMMA copyFileKeeps ==
    ASSUME NEW s, Good(s), NEW src, NEW dst, IsSeq(dst)
    PROVE  Kept(s, copyFile(s, src, dst))
  <1> DEFINE from == s.fs[Follow(s.fs, src)]
             w == WriteFile(MkdirAll(s, Front(dst), M0755), dst, from.data, from.mode)
  <1>1. Kept(s, w)
    <2> HIDE DEF from
    <2> QED BY SeqFront, WriteBelowKeeps
  <1>2. copyFile(s, src, dst) \in {s, Fail(s), w}
    BY DEF copyFile
  <1> HIDE DEF w
  <1> QED BY <1>1, <1>2, FailKeeps, KeptTwice

copyDirTurn(src, dst, c, s, p) ==
    IF s.fs[p].kind = "dir" THEN MkdirAll(s, Moved(p, src, dst), M0755)
    ELSE copyFile(s, p, Moved(p, src, dst))
copyDirFold == INSTANCE FoldFacts WITH op <- copyDirTurn, P <- Kept

\* A directory copied, file by file.
LEMMA copyDirKeeps ==
    ASSUME NEW s, Good(s), NEW src, IsSeq(src), NEW dst, IsSeq(dst)
    PROVE  Kept(s, copyDir(s, src, dst))
  <1>1. copyDir(s, src, dst) = copyDirFold!Run(src, dst, 0, s, Walk(s.fs, src))
    BY DEF copyDir, copyDirTurn, copyDirFold!Run, FoldLeft, MapThenFoldSet, Max, copyDirFold!Largest
  <1>2. Len(Walk(s.fs, src)) \in Nat /\ DOMAIN Walk(s.fs, src) = 1..Len(Walk(s.fs, src)) /\ \A i \in 1..Len(Walk(s.fs, src)) : IsSeq(Walk(s.fs, src)[i])
    BY WalkPaths, PathList DEF Good
  <1>3. ASSUME NEW t, Good(t), NEW x, IsSeq(x) PROVE Kept(t, copyDirTurn(src, dst, 0, t, x))
    <2>1. IsSeq(Moved(x, src, dst))
      BY <1>3, MovedSeq
    <2>2. Kept(t, MkdirAll(t, Moved(x, src, dst), M0755)) /\ Kept(t, copyFile(t, x, Moved(x, src, dst)))
      BY <1>3, <2>1, MkdirAllKeeps, copyFileKeeps
    <2> QED BY <2>2 DEF copyDirTurn
  <1>4. ASSUME NEW t, Kept(s, t), NEW i \in 1..Len(Walk(s.fs, src)) PROVE Kept(s, copyDirTurn(src, dst, 0, t, Walk(s.fs, src)[i]))
    BY <1>2, <1>3, <1>4, KeptTwice DEF Kept
  <1>5. Kept(s, s)
    BY KeptTwice
  <1>6. Kept(s, copyDirFold!Run(src, dst, 0, s, Walk(s.fs, src)))
    BY <1>2, <1>4, <1>5, copyDirFold!FoldKeeps
  <1> QED BY <1>1, <1>6

\* The place that a file goes to is a path.
LEMMA IntoSeq ==
    ASSUME NEW s, NEW dest, IsSeq(dest), NEW src
    PROVE  IsSeq(Into(s, dest, src)) /\ IsSeq(Append(dest, Last(src)))
  BY SeqAppend DEF Into

CpTurn(dest, recursive, c, s, f) ==
    LET src == resolvePath(s, f) IN
    CASE ~Ok(s) -> s
      [] Ok(s) /\ ~Exists(s.fs, src) -> Fail(s)
      [] Ok(s) /\ IsDir(s.fs, src) ->
            IF recursive THEN copyDir(s, src, Append(dest, Last(src))) ELSE Fail(s)
      [] OTHER -> copyFile(s, src, Into(s, dest, src))
CpFold == INSTANCE FoldFacts WITH op <- CpTurn, P <- Kept

\* cp copies each of its sources.
LEMMA CpKeeps ==
    ASSUME NEW s, Good(s), NEW sources, AllPaths(sources), NEW to, IsSeq(to), NEW recursive
    PROVE  Kept(s, Cp(s, sources, to, recursive))
  <1>1. sources # <<>> => Cp(s, sources, to, recursive) = CpFold!Run(resolvePath(s, to), recursive, 0, s, sources)
    BY DEF Cp, CpTurn, CpFold!Run, FoldLeft, MapThenFoldSet, Max, CpFold!Largest
  <1>2. Len(sources) \in Nat /\ DOMAIN sources = 1..Len(sources) /\ \A i \in 1..Len(sources) : IsSeq(sources[i])
    BY PathList
  <1>3. ASSUME NEW t, Good(t), NEW x, IsSeq(x) PROVE Kept(t, CpTurn(resolvePath(s, to), recursive, 0, t, x))
    <2> DEFINE dest == resolvePath(s, to)
               src == resolvePath(t, x)
               d == copyDir(t, src, Append(dest, Last(src)))
               f == copyFile(t, src, Into(t, dest, src))
    <2>1. IsSeq(src) /\ IsSeq(dest)
      BY <1>3, PathSeq DEF Good
    <2>2. CpTurn(dest, recursive, 0, t, x) \in {t, Fail(t), d, f}
      BY DEF CpTurn
    <2> HIDE DEF src, dest
    <2>3. Kept(t, d)
      <3>1. IsSeq(Append(dest, Last(src)))
        BY <2>1, IntoSeq
      <3> QED BY <1>3, <2>1, <3>1, copyDirKeeps
    <2>4. Kept(t, f)
      <3>1. IsSeq(Into(t, dest, src))
        BY <2>1, IntoSeq
      <3> QED BY <1>3, <2>1, <3>1, copyFileKeeps
    <2> HIDE DEF d, f
    <2>5. Kept(t, CpTurn(dest, recursive, 0, t, x))
      BY <1>3, <2>2, <2>3, <2>4, FailKeeps, KeptTwice
    <2> QED BY <2>5 DEF dest
  <1>4. ASSUME NEW t, Kept(s, t), NEW i \in 1..Len(sources) PROVE Kept(s, CpTurn(resolvePath(s, to), recursive, 0, t, sources[i]))
    BY <1>2, <1>3, <1>4, KeptTwice DEF Kept
  <1>5. Kept(s, s)
    BY KeptTwice
  <1>6. Kept(s, CpFold!Run(resolvePath(s, to), recursive, 0, s, sources))
    BY <1>2, <1>4, <1>5, CpFold!FoldKeeps
  <1>7. sources = <<>> => Cp(s, sources, to, recursive) = Fail(s)
    BY DEF Cp
  <1> QED BY <1>1, <1>6, <1>7, FailKeeps

\* What was moved from below src comes back from below dst.
LEMMA MovedBack ==
    ASSUME NEW p, IsSeq(p), NEW src, IsSeq(src), NEW dst, IsSeq(dst), IsPrefix(src, p)
    PROVE  Moved(Moved(p, src, dst), dst, src) = p
  <1> DEFINE S == Range(p) \cup Range(src) \cup Range(dst)
             end == SubSeq(p, Len(src) + 1, Len(p))
             q == dst \o end
             back == SubSeq(q, Len(dst) + 1, Len(q))
  <1>1. p \in Seq(S) /\ src \in Seq(S) /\ dst \in Seq(S) /\ Len(p) \in Nat /\ Len(src) \in Nat /\ Len(dst) \in Nat
    BY DEF IsSeq
  <1> HIDE DEF S
  <1>2. Len(src) <= Len(p) /\ \A i \in 1..Len(src) : src[i] = p[i]
    <2>1. Len(src) <= Len(p) /\ SubSeq(src, 1, Len(src)) = SubSeq(p, 1, Len(src))
      BY DEF IsPrefix
    <2>2. ASSUME NEW i \in 1..Len(src) PROVE SubSeq(src, 1, Len(src))[i] = src[i] /\ SubSeq(p, 1, Len(src))[i] = p[i]
      BY <1>1, <2>1
    <2> QED BY <2>1, <2>2
  <1>3. end \in Seq(S) /\ Len(end) = Len(p) - Len(src) /\ \A i \in 1..Len(end) : end[i] = p[Len(src) + i]
    BY <1>1, <1>2
  <1> HIDE DEF end
  <1>4. q \in Seq(S) /\ Len(q) = Len(dst) + Len(end) /\ \A i \in 1..Len(end) : q[Len(dst) + i] = end[i]
    <2>1. Len(end) \in Nat
      BY <1>3
    <2>3. q \in Seq(S) /\ Len(q) = Len(dst) + Len(end)
      BY <1>1, <1>3, ConcatProperties, Zenon
    <2>2. ASSUME NEW i \in 1..Len(end) PROVE q[Len(dst) + i] = end[i]
      BY <1>1, <1>3, <2>1, <2>2
    <2> QED BY <2>3, <2>2
  <1> HIDE DEF q
  <1>5. back \in Seq(S) /\ Len(back) = Len(end) /\ \A i \in 1..Len(end) : back[i] = end[i]
    <2>1. Len(end) \in Nat /\ Len(q) \in Nat /\ back \in Seq(S)
      BY <1>3, <1>4
    <2>2. Len(back) = Len(end)
      BY <1>1, <1>4, <2>1
    <2>3. ASSUME NEW i \in 1..Len(end) PROVE back[i] = q[Len(dst) + i]
      BY <1>1, <1>4, <2>1, <2>3
    <2> QED BY <1>4, <2>1, <2>2, <2>3
  <1> HIDE DEF back
  <1>6. src \o back \in Seq(S) /\ Len(src \o back) = Len(p)
    BY <1>1, <1>2, <1>3, <1>5
  <1>7. ASSUME NEW i \in 1..Len(p) PROVE (src \o back)[i] = p[i]
    <2>1. CASE i <= Len(src)
      BY <1>1, <1>2, <1>5, <2>1
    <2>2. CASE ~(i <= Len(src))
      <3>1. i - Len(src) \in 1..Len(end) /\ i = Len(src) + (i - Len(src))
        BY <1>1, <1>3, <2>2
      <3>2. (src \o back)[i] = back[i - Len(src)]
        BY <1>1, <1>5, <2>2, <3>1
      <3> QED BY <1>3, <1>5, <3>1, <3>2
    <2> QED BY <2>1, <2>2
  <1>8. src \o back = p
    <2> DEFINE r == src \o back
    <2>1. r \in Seq(S) /\ Len(r) = Len(p) /\ \A i \in 1..Len(p) : r[i] = p[i]
      BY <1>6, <1>7
    <2> HIDE DEF r
    <2>2. r = p
      BY <1>1, <2>1, SeqEqual, Zenon
    <2> QED BY <2>2 DEF r
  <1> QED BY <1>8 DEF Moved, back, q, end

\* os.Rename moves a tree, or fails.
LEMMA RenameKeeps ==
    ASSUME NEW s, Good(s), NEW src, IsSeq(src), NEW dst, IsSeq(dst)
    PROVE  Kept(s, Rename(s, src, dst))
  <1> DEFINE moving == {src} \cup Below(s.fs, src)
             Q == {Moved(p, src, dst) : p \in moving}
             new == [q \in Q |-> s.fs[Moved(q, dst, src)]]
             rest == Without(s.fs, moving)
             w == Change(s, Over(new, rest))
  <1>1. Rename(s, src, dst) \in {Fail(s), w} /\ (Ok(s) /\ src \notin DOMAIN s.fs => Rename(s, src, dst) = Fail(s))
    BY DEF Rename
  <1>2. CASE ~Ok(s)
    <2>1. w = s
      BY <1>2 DEF Change
    <2> HIDE DEF w
    <2> QED BY <1>1, <2>1, FailKeeps, KeptTwice
  <1>3. CASE Ok(s) /\ src \notin DOMAIN s.fs
    BY <1>1, <1>3, FailKeeps
  <1>4. CASE src \in DOMAIN s.fs
    <2>1. IsFiniteSet(moving) /\ \A p \in moving : p \in DOMAIN s.fs /\ IsSeq(p) /\ IsNode(s.fs[p]) /\ IsPrefix(src, p)
      <3>1. moving \in SUBSET (DOMAIN s.fs)
        BY <1>4 DEF Below
      <3>2. IsPrefix(src, src)
        <4>1. Len(src) \in Nat
          BY SeqParts
        <4> QED BY <4>1 DEF IsPrefix
      <3>3. \A p \in moving : IsPrefix(src, p)
        BY <3>2 DEF Below, IsStrictPrefix
      <3> HIDE DEF moving
      <3> QED BY <3>1, <3>3, FS_Subset DEF Good, IsTree
    <2> HIDE DEF moving
    <2>2. IsFiniteSet(Q)
      <3> DEFINE f == [p \in moving |-> Moved(p, src, dst)]
      <3>1. Q = {f[p] : p \in moving}
        OBVIOUS
      <3> HIDE DEF f, Q
      <3> QED BY <2>1, <3>1, ImageFinite
    <2>3. ASSUME NEW q \in Q PROVE IsSeq(q) /\ IsNode(s.fs[Moved(q, dst, src)])
      <3>1. PICK p \in moving : q = Moved(p, src, dst)
        OBVIOUS
      <3>2. Moved(q, dst, src) = p
        BY <2>1, <3>1, MovedBack
      <3> QED BY <2>1, <3>1, <3>2, MovedSeq
    <2>4. IsTree(new)
      <3> DEFINE g == [q \in Q |-> s.fs[Moved(q, dst, src)]]
      <3>1. \A q \in Q : IsSeq(q) /\ IsNode(g[q])
        BY <2>3
      <3>2. new = [q \in Q |-> g[q]]
        OBVIOUS
      <3> HIDE DEF g, new, Q
      <3> QED BY <2>2, <3>1, <3>2, TreeOf
    <2>5. IsTree(Over(new, rest))
      <3> HIDE DEF new
      <3> QED BY <2>4, TreeWithout, TreeOver DEF Good
    <2>6. Kept(s, w)
      <3> HIDE DEF new, rest
      <3> QED BY <2>5, ChangeKeeps
    <2> HIDE DEF w
    <2> QED BY <1>1, <2>6, FailKeeps
  <1> QED BY <1>2, <1>3, <1>4

MvTurn(dest, b, c, s, f) ==
    LET src == resolvePath(s, f) IN Rename(s, src, Into(s, dest, src))
MvFold == INSTANCE FoldFacts WITH op <- MvTurn, P <- Kept

\* mv renames each of its sources.
LEMMA MvKeeps ==
    ASSUME NEW s, Good(s), NEW sources, AllPaths(sources), NEW to, IsSeq(to)
    PROVE  Kept(s, Mv(s, sources, to))
  <1>1. sources # <<>> => Mv(s, sources, to) = MvFold!Run(resolvePath(s, to), 0, 0, s, sources)
    BY DEF Mv, MvTurn, MvFold!Run, FoldLeft, MapThenFoldSet, Max, MvFold!Largest
  <1>2. Len(sources) \in Nat /\ DOMAIN sources = 1..Len(sources) /\ \A i \in 1..Len(sources) : IsSeq(sources[i])
    BY PathList
  <1>3. ASSUME NEW t, Good(t), NEW x, IsSeq(x) PROVE Kept(t, MvTurn(resolvePath(s, to), 0, 0, t, x))
    <2> DEFINE dest == resolvePath(s, to)
               src == resolvePath(t, x)
    <2>1. IsSeq(src) /\ IsSeq(dest)
      BY <1>3, PathSeq DEF Good
    <2>2. MvTurn(dest, 0, 0, t, x) = Rename(t, src, Into(t, dest, src))
      BY DEF MvTurn
    <2> HIDE DEF src, dest
    <2>3. IsSeq(Into(t, dest, src))
      BY <2>1, IntoSeq
    <2>4. Kept(t, MvTurn(dest, 0, 0, t, x))
      BY <1>3, <2>1, <2>2, <2>3, RenameKeeps
    <2> QED BY <2>4 DEF dest
  <1>4. ASSUME NEW t, Kept(s, t), NEW i \in 1..Len(sources) PROVE Kept(s, MvTurn(resolvePath(s, to), 0, 0, t, sources[i]))
    BY <1>2, <1>3, <1>4, KeptTwice DEF Kept
  <1>5. Kept(s, s)
    BY KeptTwice
  <1>6. Kept(s, MvFold!Run(resolvePath(s, to), 0, 0, s, sources))
    BY <1>2, <1>4, <1>5, MvFold!FoldKeeps
  <1>7. sources = <<>> => Mv(s, sources, to) = Fail(s)
    BY DEF Mv
  <1> QED BY <1>1, <1>6, <1>7, FailKeeps

applyModeTurn(new, b, c, s, q) ==
    LET t == Follow(s.fs, q) IN
    IF Ok(s) /\ t \notin DOMAIN s.fs THEN Fail(s) ELSE Change(s, [s.fs EXCEPT ![t].mode = new])
applyModeFold == INSTANCE FoldFacts WITH op <- applyModeTurn, P <- Kept

\* chmod of one name.
LEMMA ChmodOneKeeps ==
    ASSUME NEW s, Good(s), NEW q, NEW new
    PROVE  Kept(s, applyModeTurn(new, 0, 0, s, q))
  <1> DEFINE t == Follow(s.fs, q)
             fs == [s.fs EXCEPT ![t].mode = new]
             w == Change(s, fs)
  <1>1. applyModeTurn(new, 0, 0, s, q) \in {Fail(s), w}
    BY DEF applyModeTurn
  <1> HIDE DEF t
  <1>2. IsTree(fs)
    BY TreeEdit DEF Good
  <1> HIDE DEF fs
  <1>3. Kept(s, w)
    BY <1>2, ChangeKeeps
  <1> HIDE DEF w
  <1> QED BY <1>1, <1>3, FailKeeps

\* chmod of one name, or of a tree.
LEMMA applyModeKeeps ==
    ASSUME NEW s, Good(s), NEW p, IsSeq(p), NEW mode, NEW recursive
    PROVE  Kept(s, applyMode(s, p, mode, recursive))
  <1> DEFINE top == Follow(s.fs, p)
             new == IF mode.given = "mode" THEN mode.mode
                    ELSE parseSymbolicMode(mode.clauses, s.fs[top].mode)
             w == Walk(s.fs, p)
             all == applyModeFold!Run(new, 0, 0, s, w)
             one == applyModeTurn(new, 0, 0, s, p)
  <1>1. applyMode(s, p, mode, recursive) \in {s, Fail(s), all, one}
    BY DEF applyMode, applyModeTurn, applyModeFold!Run, FoldLeft, MapThenFoldSet, Max, applyModeFold!Largest
  <1> HIDE DEF new, w
  <1>2. Len(w) \in Nat /\ DOMAIN w = 1..Len(w)
    BY WalkPaths, PathList DEF w, Good
  <1>3. ASSUME NEW t, Kept(s, t), NEW i \in 1..Len(w) PROVE Kept(s, applyModeTurn(new, 0, 0, t, w[i]))
    BY <1>3, ChmodOneKeeps, KeptTwice DEF Kept
  <1>4. Kept(s, s)
    BY KeptTwice
  <1>5. Kept(s, all)
    BY <1>2, <1>3, <1>4, applyModeFold!FoldKeeps
  <1>6. Kept(s, one)
    BY ChmodOneKeeps
  <1> HIDE DEF all, one
  <1> QED BY <1>1, <1>4, <1>5, <1>6, FailKeeps

ChmodTurn(mode, recursive, c, s, f) ==
    applyMode(s, resolvePath(s, f), mode, recursive)
ChmodFold == INSTANCE FoldFacts WITH op <- ChmodTurn, P <- Kept

\* chmod of each name it is given.
LEMMA ChmodKeeps ==
    ASSUME NEW s, Good(s), NEW files, AllPaths(files), NEW mode, NEW recursive
    PROVE  Kept(s, Chmod(s, files, mode, recursive))
  <1>1. Chmod(s, files, mode, recursive) = ChmodFold!Run(mode, recursive, 0, s, files)
    BY DEF Chmod, ChmodTurn, ChmodFold!Run, FoldLeft, MapThenFoldSet, Max, ChmodFold!Largest
  <1>2. Len(files) \in Nat /\ DOMAIN files = 1..Len(files) /\ \A i \in 1..Len(files) : IsSeq(files[i])
    BY PathList
  <1>3. ASSUME NEW t, Good(t), NEW x, IsSeq(x) PROVE Kept(t, ChmodTurn(mode, recursive, 0, t, x))
    BY <1>3, PathSeq, applyModeKeeps DEF ChmodTurn, Good
  <1>4. ASSUME NEW t, Kept(s, t), NEW i \in 1..Len(files) PROVE Kept(s, ChmodTurn(mode, recursive, 0, t, files[i]))
    BY <1>2, <1>3, <1>4, KeptTwice DEF Kept
  <1>5. Kept(s, s)
    BY KeptTwice
  <1>6. Kept(s, ChmodFold!Run(mode, recursive, 0, s, files))
    BY <1>2, <1>4, <1>5, ChmodFold!FoldKeeps
  <1> QED BY <1>1, <1>6

Place(s, force, target, p) == Symlink(IF force THEN TryRemove(s, p) ELSE s, target, p)
LnTurn(force, last, c, s, t) == Place(s, force, t, Append(last, Last(t)))
LnFold == INSTANCE FoldFacts WITH op <- LnTurn, P <- Kept

\* One link of ln -s, the old name removed before.
LEMMA PlaceKeeps ==
    ASSUME NEW s, Good(s), NEW force, NEW target, IsSeq(target), NEW p, IsSeq(p)
    PROVE  Kept(s, Place(s, force, target, p))
  <1> DEFINE t == IF force THEN TryRemove(s, p) ELSE s
  <1>1. Kept(s, t)
    BY TryRemoveKeeps, KeptTwice
  <1>2. Place(s, force, target, p) = Symlink(t, target, p)
    BY DEF Place
  <1> HIDE DEF t
  <1>3. Kept(t, Symlink(t, target, p))
    BY <1>1, SymlinkKeeps DEF Kept
  <1> QED BY <1>1, <1>2, <1>3, KeptTwice

\* ln makes links and nothing else.
LEMMA LnKeeps ==
    ASSUME NEW s, Good(s), NEW targets, AllPaths(targets), NEW force
    PROVE  Kept(s, Ln(s, targets, force))
  <1>1. CASE targets = <<>>
    BY <1>1, FailKeeps DEF Ln
  <1>2. CASE targets # <<>>
    <2> DEFINE last == resolvePath(s, Last(targets))
               fs == Front(targets)
               one == Place(s, force, targets[1], resolvePath(s, <<Last(targets[1])>>))
               many == LnFold!Run(force, last, 0, s, fs)
               two == Place(s, force, targets[1], resolvePath(s, targets[2]))
    <2>1. /\ Len(targets) \in Nat \ {0} /\ IsSeq(targets[1]) /\ IsSeq(Last(targets)) /\ AllPaths(fs)
          /\ \A i \in 1..Len(targets) : IsSeq(targets[i])
      BY <1>2, ArgSeq
    <2>2. /\ Len(targets) = 1 => Ln(s, targets, force) = one
          /\ Len(targets) # 1 => Ln(s, targets, force) \in {many, two}
      BY <1>2, SMTT(30) DEF Ln, LnTurn, Place, LnFold!Run, FoldLeft, MapThenFoldSet, Max, LnFold!Largest
    <2>3. Kept(s, one)
      BY <2>1, SeqLiterals, PathSeq, PlaceKeeps DEF Good
    <2>4. IsSeq(last)
      BY <2>1, PathSeq DEF Good
    <2>5. Len(targets) # 1 => Kept(s, two)
      <3>1. Len(targets) # 1 => IsSeq(targets[2])
        BY <2>1, SMTT(30)
      <3> QED BY <2>1, <3>1, PathSeq, PlaceKeeps DEF Good
    <2>6. Kept(s, many)
      <3> HIDE DEF last, fs
      <3>1. Len(fs) \in Nat /\ DOMAIN fs = 1..Len(fs) /\ \A i \in 1..Len(fs) : IsSeq(fs[i])
        BY <2>1, PathList
      <3>2. ASSUME NEW t, Kept(s, t), NEW i \in 1..Len(fs) PROVE Kept(s, LnTurn(force, last, 0, t, fs[i]))
        <4>1. IsSeq(fs[i]) /\ IsSeq(Append(last, Last(fs[i])))
          BY <2>4, <3>1, SeqAppend
        <4>2. Kept(t, LnTurn(force, last, 0, t, fs[i]))
          BY <3>2, <4>1, PlaceKeeps DEF LnTurn, Kept
        <4> QED BY <3>2, <4>2, KeptTwice
      <3>3. Kept(s, s)
        BY KeptTwice
      <3> QED BY <3>1, <3>2, <3>3, LnFold!FoldKeeps
    <2> HIDE DEF one, many, two
    <2> QED BY <2>2, <2>3, <2>5, <2>6
  <1> QED BY <1>1, <1>2

TouchTurn(a, b, c, s, f) ==
    LET p == resolvePath(s, f)
        d == MkdirAll(s, Front(p), M0755)
    IN IF ~Ok(d) \/ Exists(d.fs, p) THEN d ELSE WriteFile(d, p, <<>>, M0644)
TouchFold == INSTANCE FoldFacts WITH op <- TouchTurn, P <- Kept

\* touch makes files.
LEMMA TouchKeeps ==
    ASSUME NEW s, Good(s), NEW files, AllPaths(files)
    PROVE  Kept(s, Touch(s, files))
  <1>1. Touch(s, files) = TouchFold!Run(0, 0, 0, s, files)
    BY DEF Touch, TouchTurn, TouchFold!Run, FoldLeft, MapThenFoldSet, Max, TouchFold!Largest
  <1>2. Len(files) \in Nat /\ DOMAIN files = 1..Len(files) /\ \A i \in 1..Len(files) : IsSeq(files[i])
    BY PathList
  <1>3. ASSUME NEW t, Good(t), NEW x, IsSeq(x) PROVE Kept(t, TouchTurn(0, 0, 0, t, x))
    <2> DEFINE p == resolvePath(t, x)
               d == MkdirAll(t, Front(p), M0755)
    <2>1. IsSeq(p)
      BY <1>3, PathSeq DEF Good
    <2>2. TouchTurn(0, 0, 0, t, x) \in {d, WriteFile(d, p, <<>>, M0644)}
      BY DEF TouchTurn
    <2> HIDE DEF p
    <2>3. Kept(t, d)
      BY <1>3, <2>1, SeqFront, MkdirAllKeeps
    <2>4. Kept(t, WriteFile(d, p, <<>>, M0644))
      BY <1>3, <2>1, SeqFront, WriteBelowKeeps
    <2> HIDE DEF d
    <2> QED BY <2>2, <2>3, <2>4
  <1>4. ASSUME NEW t, Kept(s, t), NEW i \in 1..Len(files) PROVE Kept(s, TouchTurn(0, 0, 0, t, files[i]))
    BY <1>2, <1>3, <1>4, KeptTwice DEF Kept
  <1>5. Kept(s, s)
    BY KeptTwice
  <1>6. Kept(s, TouchFold!Run(0, 0, 0, s, files))
    BY <1>2, <1>4, <1>5, TouchFold!FoldKeeps
  <1> QED BY <1>1, <1>6

InstallDirsTurn(mode, b, c, s, d) == MkdirAll(s, processPath(d), mode)
InstallDirsFold == INSTANCE FoldFacts WITH op <- InstallDirsTurn, P <- Kept
InstallTurn(mode, dest, c, s, f) ==
    LET src == processPath(f) IN installFile(s, src, Into(s, dest, src), mode)
InstallFold == INSTANCE FoldFacts WITH op <- InstallTurn, P <- Kept

\* install makes directories, or copies files to one place.
LEMMA InstallKeeps ==
    ASSUME NEW s, Good(s), NEW names, AllPaths(names), NEW mode, NEW createDirs
    PROVE  Kept(s, Install(s, names, mode, createDirs))
  <1> DEFINE dest == processPath(Last(names))
             fs == Front(names)
             made == InstallDirsFold!Run(mode, 0, 0, s, names)
             copied == InstallFold!Run(mode, dest, 0, s, fs)
  <1>1. Install(s, names, mode, createDirs) =
            IF createDirs THEN made ELSE IF Len(names) < 2 THEN Fail(s) ELSE copied
    BY DEF Install, InstallDirsTurn, InstallTurn, InstallDirsFold!Run, InstallDirsFold!Largest, InstallFold!Run, FoldLeft, MapThenFoldSet, Max, InstallFold!Largest
  <1>2. Kept(s, s)
    BY KeptTwice
  <1>3. Kept(s, made)
    <2>1. Len(names) \in Nat /\ DOMAIN names = 1..Len(names) /\ \A i \in 1..Len(names) : IsSeq(names[i])
      BY PathList
    <2>2. ASSUME NEW t, Kept(s, t), NEW i \in 1..Len(names) PROVE Kept(s, InstallDirsTurn(mode, 0, 0, t, names[i]))
      BY <2>1, <2>2, PathSeq, MkdirAllKeeps, KeptTwice DEF Kept, InstallDirsTurn
    <2> QED BY <1>2, <2>1, <2>2, InstallDirsFold!FoldKeeps
  <1>4. ~(Len(names) < 2) => Kept(s, copied)
    <2>1. SUFFICES ASSUME ~(Len(names) < 2) PROVE Kept(s, copied)
      OBVIOUS
    <2>2. names # <<>>
      BY <2>1
    <2>3. AllPaths(fs) /\ IsSeq(dest)
      BY <2>2, ArgSeq, PathSeq
    <2> HIDE DEF fs, dest
    <2>4. Len(fs) \in Nat /\ DOMAIN fs = 1..Len(fs) /\ \A i \in 1..Len(fs) : IsSeq(fs[i])
      BY <2>3, PathList
    <2>5. ASSUME NEW t, Kept(s, t), NEW i \in 1..Len(fs) PROVE Kept(s, InstallTurn(mode, dest, 0, t, fs[i]))
      <3> DEFINE src == processPath(fs[i])
      <3>1. InstallTurn(mode, dest, 0, t, fs[i]) = installFile(t, src, Into(t, dest, src), mode)
        BY DEF InstallTurn
      <3> HIDE DEF src
      <3>2. Kept(t, installFile(t, src, Into(t, dest, src), mode))
        BY <2>3, <2>5, IntoSeq, installFileKeeps DEF Kept
      <3> QED BY <2>5, <3>1, <3>2, KeptTwice
    <2> QED BY <1>2, <2>4, <2>5, InstallFold!FoldKeeps
  <1> HIDE DEF made, copied
  <1> QED BY <1>1, <1>3, <1>4, FailKeeps

-----------------------------------------------------------------------------
(* unpack *)

IsMember(m) == IsSeq(m.path) /\ IsNode(m.node) /\ m.node.kind \in {"dir", "file", "link"}

\* One member extracted, or refused.
LEMMA extractMemberKeeps ==
    ASSUME NEW s, Good(s), NEW dest, IsSeq(dest), NEW m, IsMember(m)
    PROVE  Kept(s, extractMember(s, dest, m))
  <1> DEFINE target == Resolve(dest, m.path)
             d == MkdirAll(s, target, m.node.mode)
             up == MkdirAll(s, Front(target), M0755)
             f == WriteFile(up, target, m.node.data, m.node.mode)
             r == TryRemove(up, target)
             l == Symlink(r, m.node.data, target)
  <1>1. IsSeq(target) /\ IsSeq(Front(target))
    BY ResolveSeq, SeqFront DEF IsMember
  <1>2. /\ m.node.kind # "link" => extractMember(s, dest, m) \in {s, Fail(s), d, f}
        /\ m.node.kind = "link" => extractMember(s, dest, m) \in {s, Fail(s), l}
    BY DEF extractMember, IsMember
  <1> HIDE DEF target
  <1>3. Kept(s, d) /\ Kept(s, up)
    BY <1>1, MkdirAllKeeps
  <1>4. Kept(s, f)
    BY <1>1, WriteBelowKeeps
  <1> HIDE DEF d, up, f
  <1>5. Kept(s, r)
    BY <1>3, TryRemoveKeeps, KeptTwice DEF Kept
  <1> HIDE DEF r
  <1>6. m.node.kind = "link" => Kept(s, l)
    BY <1>1, <1>5, SymlinkKeeps, KeptTwice DEF Kept, IsMember, IsNode
  <1> HIDE DEF l
  <1> QED BY <1>2, <1>3, <1>4, <1>6, FailKeeps, KeptTwice

unpackArchiveTurn(dest, b, c, s, m) == extractMember(s, dest, m)
unpackArchiveFold == INSTANCE FoldFacts WITH op <- unpackArchiveTurn, P <- Kept

\* An archive unpacked, member by member.
LEMMA unpackArchiveKeeps ==
    ASSUME NEW s, Good(s), NEW name, NEW dest, IsSeq(dest)
    PROVE  Kept(s, unpackArchive(s, name, Archives, dest))
  <1> DEFINE ms == Archives[name]
             all == unpackArchiveFold!Run(dest, 0, 0, s, ms)
             own == WriteFile(s, dest \o <<name>>, <<>>, M0644)
  <1>1. /\ name \in DOMAIN Archives => unpackArchive(s, name, Archives, dest) = all
        /\ name \notin DOMAIN Archives => unpackArchive(s, name, Archives, dest) \in {own, Fail(s)}
    BY DEF unpackArchive, unpackArchiveTurn, unpackArchiveFold!Run, FoldLeft, MapThenFoldSet, Max, unpackArchiveFold!Largest
  <1>2. Kept(s, own)
    BY SeqLiterals, SeqConcat, WriteFileKeeps
  <1>3. name \in DOMAIN Archives => Kept(s, all)
    <2>1. SUFFICES ASSUME name \in DOMAIN Archives PROVE Kept(s, all)
      OBVIOUS
    <2>2. Len(ms) \in Nat /\ DOMAIN ms = 1..Len(ms) /\ \A i \in 1..Len(ms) : IsMember(ms[i])
      <3>1. IsSeq(ms) /\ \A i \in DOMAIN ms : IsMember(ms[i])
        BY <2>1, TreeAssumption DEF IsMember
      <3> QED BY <3>1, SeqParts
    <2> HIDE DEF ms
    <2>3. ASSUME NEW t, Kept(s, t), NEW i \in 1..Len(ms) PROVE Kept(s, unpackArchiveTurn(dest, 0, 0, t, ms[i]))
      BY <2>2, <2>3, extractMemberKeeps, KeptTwice DEF unpackArchiveTurn, Kept
    <2>4. Kept(s, s)
      BY KeptTwice
    <2> QED BY <2>2, <2>3, <2>4, unpackArchiveFold!FoldKeeps
  <1> HIDE DEF all, own
  <1> QED BY <1>1, <1>2, <1>3, FailKeeps

UnpackTurn(a, b, c, s, n) ==
    unpackArchive(s, Last(n), Archives, <<"W">>)
UnpackFold == INSTANCE FoldFacts WITH op <- UnpackTurn, P <- Kept

\* unpack of each archive it is given.
LEMMA UnpackKeeps ==
    ASSUME NEW s, Good(s), NEW names, AllPaths(names)
    PROVE  Kept(s, Unpack(s, names, Archives))
  <1>1. names # <<>> => Unpack(s, names, Archives) = UnpackFold!Run(0, 0, 0, s, names)
    BY DEF Unpack, UnpackTurn, UnpackFold!Run, FoldLeft, MapThenFoldSet, Max, UnpackFold!Largest
  <1>2. Len(names) \in Nat /\ DOMAIN names = 1..Len(names) /\ \A i \in 1..Len(names) : IsSeq(names[i])
    BY PathList
  <1>3. ASSUME NEW t, Good(t), NEW x, IsSeq(x) PROVE Kept(t, UnpackTurn(0, 0, 0, t, x))
    BY <1>3, SeqLiterals, unpackArchiveKeeps DEF UnpackTurn
  <1>4. ASSUME NEW t, Kept(s, t), NEW i \in 1..Len(names) PROVE Kept(s, UnpackTurn(0, 0, 0, t, names[i]))
    BY <1>2, <1>3, <1>4, KeptTwice DEF Kept
  <1>5. Kept(s, s)
    BY KeptTwice
  <1>6. Kept(s, UnpackFold!Run(0, 0, 0, s, names))
    BY <1>2, <1>4, <1>5, UnpackFold!FoldKeeps
  <1>7. names = <<>> => Unpack(s, names, Archives) = Fail(s)
    BY DEF Unpack
  <1> QED BY <1>1, <1>6, <1>7, FailKeeps

-----------------------------------------------------------------------------
(* The install helpers *)

\* One file, link or directory of a do* helper.
LEMMA InstallOneKeeps ==
    ASSUME NEW s, Good(s), NEW f, IsSeq(f), NEW dst, IsSeq(dst), NEW mode, NEW recursive
    PROVE  Kept(s, InstallOne(s, f, dst, mode, recursive))
  <1> DEFINE src == resolveSourcePath(f)
             d == installDir(s, src, dst, mode)
             w == installFile(s, src, dst, mode)
  <1>1. InstallOne(s, f, dst, mode, recursive) \in {s, Fail(s), d, w}
    BY DEF InstallOne
  <1>2. IsSeq(src)
    BY PathSeq
  <1> HIDE DEF src
  <1>3. Kept(s, d) /\ Kept(s, w)
    BY <1>2, installDirKeeps, installFileKeeps
  <1> HIDE DEF d, w
  <1> QED BY <1>1, <1>3, FailKeeps, KeptTwice

InstallAllTurn(dir, mode, recursive, r, f) ==
    InstallOne(r, f, Append(dir, Last(f)), mode, recursive)
InstallAllFold == INSTANCE FoldFacts WITH op <- InstallAllTurn, P <- Kept

\* The files of a do* helper.
LEMMA InstallAllKeeps ==
    ASSUME NEW s, Good(s), NEW dir, IsSeq(dir), NEW files, AllPaths(files), NEW mode, NEW recursive
    PROVE  Kept(s, InstallAll(s, dir, files, mode, recursive))
  <1>1. ~(files = <<>> /\ ~recursive) => InstallAll(s, dir, files, mode, recursive) = InstallAllFold!Run(dir, mode, recursive, MkdirAll(s, dir, M0755), files)
    BY DEF InstallAll, InstallAllTurn, InstallAllFold!Run, FoldLeft, MapThenFoldSet, Max, InstallAllFold!Largest
  <1>2. Len(files) \in Nat /\ DOMAIN files = 1..Len(files) /\ \A i \in 1..Len(files) : IsSeq(files[i])
    BY PathList
  <1>3. ASSUME NEW t, Good(t), NEW x, IsSeq(x) PROVE Kept(t, InstallAllTurn(dir, mode, recursive, t, x))
    BY <1>3, SeqAppend, InstallOneKeeps DEF InstallAllTurn
  <1>4. ASSUME NEW t, Kept(s, t), NEW i \in 1..Len(files) PROVE Kept(s, InstallAllTurn(dir, mode, recursive, t, files[i]))
    BY <1>2, <1>3, <1>4, KeptTwice DEF Kept
  <1>5. Kept(s, MkdirAll(s, dir, M0755))
    BY MkdirAllKeeps
  <1>6. Kept(s, InstallAllFold!Run(dir, mode, recursive, MkdirAll(s, dir, M0755), files))
    BY <1>2, <1>4, <1>5, InstallAllFold!FoldKeeps
  <1>7. files = <<>> /\ ~recursive => InstallAll(s, dir, files, mode, recursive) = Fail(s)
    BY DEF InstallAll
  <1> QED BY <1>1, <1>6, <1>7, FailKeeps

\* The file of a new* helper.
LEMMA InstallAsKeeps ==
    ASSUME NEW s, Good(s), NEW dir, IsSeq(dir), NEW args, AllPaths(args), NEW mode
    PROVE  Kept(s, InstallAs(s, dir, args, mode))
  <1> DEFINE src == resolveSourcePath(args[1])
             d == MkdirAll(s, dir, M0755)
             w == installFile(d, src, dir \o args[2], mode)
  <1>1. CASE Len(args) < 2
    BY <1>1, FailKeeps DEF InstallAs
  <1>2. CASE ~(Len(args) < 2)
    <2>1. InstallAs(s, dir, args, mode) \in {Fail(s), w}
      BY DEF InstallAs
    <2>2. IsSeq(dir \o args[2])
      <3>1. Len(args) \in Nat /\ \A i \in 1..Len(args) : IsSeq(args[i])
        BY PathList
      <3>2. IsSeq(args[2])
        BY <1>2, <3>1
      <3> QED BY <3>2, SeqConcat
    <2>3. Kept(s, d)
      BY MkdirAllKeeps
    <2> HIDE DEF d, src
    <2>4. Kept(d, w)
      BY <2>2, <2>3, installFileKeeps DEF Kept
    <2> HIDE DEF w
    <2> QED BY <2>1, <2>3, <2>4, KeptTwice, FailKeeps
  <1> QED BY <1>1, <1>2

\* A helper whose options are bad does nothing.
LEMMA WithModeKeeps ==
    ASSUME NEW s, Good(s), NEW opts, NEW r, Kept(s, r)
    PROVE  Kept(s, WithMode(s, opts, r))
  BY FailKeeps DEF WithMode

\* The directories that the helpers install to.
LEMMA HelperDirs ==
    ASSUME NEW s, Good(s)
    PROVE  /\ IsSeq(BinDir(s)) /\ IsSeq(SbinDir(s)) /\ IsSeq(LibDir(s))
           /\ IsSeq(InImage(s.exeDestTree)) /\ IsSeq(InImage(s.insDestTree)) /\ IsSeq(getDocDir(s))
           /\ \A name : IsSeq(ManDir(name)) /\ IsSeq(LocaleDir(s, name))
           /\ \A a, b : IsSeq(InImage(<<a, b>>))
           /\ \A a, b, c : IsSeq(InImage(<<a, b, c>>))
  <1>1. IsSeq(s.destTree) /\ IsSeq(s.exeDestTree) /\ IsSeq(s.insDestTree) /\ IsSeq(s.docDestTree)
    BY DEF Good
  <1>2. IsSeq(BinDir(s)) /\ IsSeq(SbinDir(s)) /\ IsSeq(LibDir(s))
    BY <1>1, SeqAppend, PathSeq DEF BinDir, SbinDir, LibDir
  <1>3. IsSeq(InImage(s.exeDestTree)) /\ IsSeq(InImage(s.insDestTree))
    BY <1>1, PathSeq
  <1>4. IsSeq(getDocDir(s))
    <2>1. IsSeq(<<"usr", "share", "doc", "PF">>)
      BY SeqLiterals
    <2> QED BY <1>1, <2>1, SeqConcat, PathSeq DEF getDocDir
  <1>5. ASSUME NEW name PROVE IsSeq(ManDir(name)) /\ IsSeq(LocaleDir(s, name))
    <2>1. IsSeq(ManDir(name))
      <3>1. IsSeq(<<"usr", "share", "man", Ext[name]>>)
        BY SeqLiterals
      <3> QED BY <3>1, PathSeq DEF ManDir
    <2> DEFINE top == IF eapi >= 7 THEN <<"usr">> ELSE s.destTree
               low == <<"share", "locale", Stem[name], "LC">>
    <2>2. IsSeq(top) /\ IsSeq(low)
      <3>1. IsSeq(<<"usr">>)
        BY SeqLiterals
      <3>2. IsSeq(low)
        BY SeqLiterals
      <3> QED BY <1>1, <3>1, <3>2
    <2>3. LocaleDir(s, name) = InImage(top \o low)
      BY DEF LocaleDir
    <2> HIDE DEF top, low
    <2> QED BY <2>1, <2>2, <2>3, SeqConcat, PathSeq
  <1>6. \A a, b : IsSeq(InImage(<<a, b>>))
    BY SeqLiterals, PathSeq
  <1>7. \A a, b, c : IsSeq(InImage(<<a, b, c>>))
    BY SeqLiterals, PathSeq
  <1> QED BY <1>2, <1>3, <1>4, <1>5, <1>6, <1>7

\* Programs and plain files.
LEMMA ExeInsKeep ==
    ASSUME NEW s, Good(s), NEW args, AllPaths(args)
    PROVE  /\ Kept(s, Dobin(s, args)) /\ Kept(s, Dosbin(s, args)) /\ Kept(s, Newbin(s, args))
           /\ Kept(s, Newsbin(s, args)) /\ Kept(s, Doexe(s, args)) /\ Kept(s, Newins(s, args))
           /\ \A recursive : Kept(s, Doins(s, args, recursive))
  <1>1. \A dir, mode, recursive : IsSeq(dir) => Kept(s, InstallAll(s, dir, args, mode, recursive))
    BY InstallAllKeeps
  <1>2. \A dir, mode : IsSeq(dir) => Kept(s, InstallAs(s, dir, args, mode))
    BY InstallAsKeeps
  <1>3. Kept(s, Dobin(s, args)) /\ Kept(s, Dosbin(s, args))
    BY <1>1, HelperDirs, WithModeKeeps DEF Dobin, Dosbin
  <1>4. Kept(s, Newbin(s, args)) /\ Kept(s, Newsbin(s, args))
    BY <1>2, HelperDirs, WithModeKeeps DEF Newbin, Newsbin
  <1>5. Kept(s, Doexe(s, args))
    BY <1>1, HelperDirs, WithModeKeeps, FailKeeps DEF Doexe
  <1>6. Kept(s, Newins(s, args))
    BY <1>2, HelperDirs, WithModeKeeps DEF Newins
  <1>7. \A recursive : Kept(s, Doins(s, args, recursive))
    BY <1>1, HelperDirs, WithModeKeeps DEF Doins
  <1> QED BY <1>3, <1>4, <1>5, <1>6, <1>7

DolibTurn(dir, b, c, r, f) ==
    InstallOne(r, f, Append(dir, Last(f)), IF Ext[Last(f)] = "so" THEN M0755 ELSE M0644, FALSE)
DolibFold == INSTANCE FoldFacts WITH op <- DolibTurn, P <- Kept

\* Libraries, whose permissions are those of their kind.
LEMMA DolibKeeps ==
    ASSUME NEW s, Good(s), NEW args, AllPaths(args)
    PROVE  Kept(s, Dolib(s, args))
  <1>1. args # <<>> => Dolib(s, args) = DolibFold!Run(LibDir(s), 0, 0, MkdirAll(s, LibDir(s), M0755), args)
    BY DEF Dolib, DolibTurn, DolibFold!Run, FoldLeft, MapThenFoldSet, Max, DolibFold!Largest
  <1>2. Len(args) \in Nat /\ DOMAIN args = 1..Len(args) /\ \A i \in 1..Len(args) : IsSeq(args[i])
    BY PathList
  <1>3. ASSUME NEW t, Good(t), NEW x, IsSeq(x) PROVE Kept(t, DolibTurn(LibDir(s), 0, 0, t, x))
    <2> DEFINE m == IF Ext[Last(x)] = "so" THEN M0755 ELSE M0644
    <2>1. IsSeq(Append(LibDir(s), Last(x)))
      BY HelperDirs, SeqAppend
    <2>2. DolibTurn(LibDir(s), 0, 0, t, x) = InstallOne(t, x, Append(LibDir(s), Last(x)), m, FALSE)
      BY DEF DolibTurn
    <2> HIDE DEF m
    <2> QED BY <1>3, <2>1, <2>2, InstallOneKeeps
  <1>4. ASSUME NEW t, Kept(s, t), NEW i \in 1..Len(args) PROVE Kept(s, DolibTurn(LibDir(s), 0, 0, t, args[i]))
    BY <1>2, <1>3, <1>4, KeptTwice DEF Kept
  <1>5. Kept(s, MkdirAll(s, LibDir(s), M0755))
    BY HelperDirs, MkdirAllKeeps
  <1>6. Kept(s, DolibFold!Run(LibDir(s), 0, 0, MkdirAll(s, LibDir(s), M0755), args))
    BY <1>2, <1>4, <1>5, DolibFold!FoldKeeps
  <1>7. args = <<>> => Dolib(s, args) = Fail(s)
    BY DEF Dolib
  <1> QED BY <1>1, <1>6, <1>7, FailKeeps

DolibSoTurn(dir, b, c, r, f) ==
    LET src == resolveSourcePath(f) IN
    IF Ok(r) /\ src \in DOMAIN r.fs /\ r.fs[src].kind = "dir" THEN Fail(r)
    ELSE installFile(r, src, Append(dir, Last(f)), M0755)
DolibSoFold == INSTANCE FoldFacts WITH op <- DolibSoTurn, P <- Kept

\* dolib.so, which takes a link that leads nowhere.
LEMMA DolibSoKeeps ==
    ASSUME NEW s, Good(s), NEW args, AllPaths(args)
    PROVE  Kept(s, DolibSo(s, args))
  <1>1. args # <<>> => DolibSo(s, args) = DolibSoFold!Run(LibDir(s), 0, 0, MkdirAll(s, LibDir(s), M0755), args)
    BY DEF DolibSo, DolibSoTurn, DolibSoFold!Run, FoldLeft, MapThenFoldSet, Max, DolibSoFold!Largest
  <1>2. Len(args) \in Nat /\ DOMAIN args = 1..Len(args) /\ \A i \in 1..Len(args) : IsSeq(args[i])
    BY PathList
  <1>3. ASSUME NEW t, Good(t), NEW x, IsSeq(x) PROVE Kept(t, DolibSoTurn(LibDir(s), 0, 0, t, x))
    <2> DEFINE w == installFile(t, resolveSourcePath(x), Append(LibDir(s), Last(x)), M0755)
    <2>1. IsSeq(Append(LibDir(s), Last(x)))
      BY HelperDirs, SeqAppend
    <2>2. DolibSoTurn(LibDir(s), 0, 0, t, x) \in {Fail(t), w}
      BY DEF DolibSoTurn
    <2>3. Kept(t, w)
      BY <1>3, <2>1, installFileKeeps
    <2> HIDE DEF w
    <2> QED BY <1>3, <2>2, <2>3, FailKeeps
  <1>4. ASSUME NEW t, Kept(s, t), NEW i \in 1..Len(args) PROVE Kept(s, DolibSoTurn(LibDir(s), 0, 0, t, args[i]))
    BY <1>2, <1>3, <1>4, KeptTwice DEF Kept
  <1>5. Kept(s, MkdirAll(s, LibDir(s), M0755))
    BY HelperDirs, MkdirAllKeeps
  <1>6. Kept(s, DolibSoFold!Run(LibDir(s), 0, 0, MkdirAll(s, LibDir(s), M0755), args))
    BY <1>2, <1>4, <1>5, DolibSoFold!FoldKeeps
  <1>7. args = <<>> => DolibSo(s, args) = Fail(s)
    BY DEF DolibSo
  <1> QED BY <1>1, <1>6, <1>7, FailKeeps

\* Headers, static libraries and scripts of the init system.
LEMMA HeadersKeep ==
    ASSUME NEW s, Good(s), NEW args, AllPaths(args)
    PROVE  /\ Kept(s, DolibA(s, args)) /\ Kept(s, Doinitd(s, args)) /\ Kept(s, Doinfo(s, args))
           /\ \A recursive : Kept(s, Doheader(s, args, recursive)) /\ Kept(s, Dodoc(s, args, recursive))
           /\ Kept(s, Newdoc(s, args))
  <1>1. \A dir, mode, recursive : IsSeq(dir) => Kept(s, InstallAll(s, dir, args, mode, recursive))
    BY InstallAllKeeps
  <1>2. Kept(s, DolibA(s, args)) /\ Kept(s, Doinitd(s, args))
    BY <1>1, HelperDirs DEF DolibA, Doinitd
  <1>3. Kept(s, Doinfo(s, args))
    BY <1>1, HelperDirs DEF Doinfo
  <1>4. ASSUME NEW recursive PROVE Kept(s, Doheader(s, args, recursive)) /\ Kept(s, Dodoc(s, args, recursive))
    <2> DEFINE include == <<"usr", "include">>
               sub == IF s.insDestTree = <<"usr">> THEN <<>>
                      ELSE IF IsPrefix(include, s.insDestTree) THEN Moved(s.insDestTree, include, <<>>)
                      ELSE s.insDestTree
    <2>1. IsSeq(include) /\ IsSeq(<<>>) /\ IsSeq(s.insDestTree)
      BY SeqLiterals DEF Good
    <2>2. IsSeq(sub)
      <3> HIDE DEF include
      <3>1. IsSeq(Moved(s.insDestTree, include, <<>>))
        BY <2>1, MovedSeq
      <3> QED BY <2>1, <3>1
    <2>3. Doheader(s, args, recursive) = InstallAll(s, InImage(include \o sub), args, M0644, recursive)
      BY DEF Doheader
    <2> HIDE DEF include, sub
    <2>4. Kept(s, Doheader(s, args, recursive))
      BY <1>1, <2>1, <2>2, <2>3, SeqConcat, PathSeq
    <2>5. Kept(s, Dodoc(s, args, recursive))
      BY <1>1, HelperDirs DEF Dodoc
    <2> QED BY <2>4, <2>5
  <1>5. Kept(s, Newdoc(s, args))
    BY InstallAsKeeps, HelperDirs DEF Newdoc
  <1> QED BY <1>2, <1>3, <1>4, <1>5

DodirTurn(mode, b, c, r, d) == MkdirAll(r, InImage(d), mode)
DodirFold == INSTANCE FoldFacts WITH op <- DodirTurn, P <- Kept

\* dodir makes directories of the image.
LEMMA DodirKeeps ==
    ASSUME NEW s, Good(s), NEW dirs, AllPaths(dirs)
    PROVE  Kept(s, Dodir(s, dirs))
  <1> DEFINE m == parseMode(s.dirOpts)
             all == DodirFold!Run(m, 0, 0, s, dirs)
  <1>1. Dodir(s, dirs) \in {Fail(s), WithMode(s, s.dirOpts, all)}
    BY DEF Dodir, DodirTurn, DodirFold!Run, FoldLeft, MapThenFoldSet, Max, DodirFold!Largest
  <1> HIDE DEF m
  <1>2. Len(dirs) \in Nat /\ DOMAIN dirs = 1..Len(dirs) /\ \A i \in 1..Len(dirs) : IsSeq(dirs[i])
    BY PathList
  <1>3. ASSUME NEW t, Kept(s, t), NEW i \in 1..Len(dirs) PROVE Kept(s, DodirTurn(m, 0, 0, t, dirs[i]))
    BY <1>2, <1>3, PathSeq, MkdirAllKeeps, KeptTwice DEF DodirTurn, Kept
  <1>4. Kept(s, s)
    BY KeptTwice
  <1>5. Kept(s, all)
    BY <1>2, <1>3, <1>4, DodirFold!FoldKeeps
  <1> HIDE DEF all
  <1> QED BY <1>1, <1>5, WithModeKeeps, FailKeeps

KeepdirTurn(mode, b, c, r, d) ==
    WriteFile(MkdirAll(r, InImage(d), mode), InImage(Append(d, ".keep")), <<>>, M0644)
KeepdirFold == INSTANCE FoldFacts WITH op <- KeepdirTurn, P <- Kept

\* keepdir makes them with a file each.
LEMMA KeepdirKeeps ==
    ASSUME NEW s, Good(s), NEW dirs, AllPaths(dirs)
    PROVE  Kept(s, Keepdir(s, dirs))
  <1> DEFINE m == parseMode(s.dirOpts)
             all == KeepdirFold!Run(m, 0, 0, s, dirs)
  <1>1. Keepdir(s, dirs) \in {Fail(s), WithMode(s, s.dirOpts, all)}
    BY DEF Keepdir, KeepdirTurn, KeepdirFold!Run, FoldLeft, MapThenFoldSet, Max, KeepdirFold!Largest
  <1> HIDE DEF m
  <1>2. Len(dirs) \in Nat /\ DOMAIN dirs = 1..Len(dirs) /\ \A i \in 1..Len(dirs) : IsSeq(dirs[i])
    BY PathList
  <1>3. ASSUME NEW t, Kept(s, t), NEW i \in 1..Len(dirs) PROVE Kept(s, KeepdirTurn(m, 0, 0, t, dirs[i]))
    <2>1. IsSeq(InImage(dirs[i])) /\ IsSeq(InImage(Append(dirs[i], ".keep")))
      BY <1>2, SeqAppend, PathSeq
    <2>2. Kept(t, KeepdirTurn(m, 0, 0, t, dirs[i]))
      BY <1>3, <2>1, WriteBelowKeeps DEF KeepdirTurn, Kept
    <2> QED BY <1>3, <2>2, KeptTwice
  <1>4. Kept(s, s)
    BY KeptTwice
  <1>5. Kept(s, all)
    BY <1>2, <1>3, <1>4, KeepdirFold!FoldKeeps
  <1> HIDE DEF all
  <1> QED BY <1>1, <1>5, WithModeKeeps, FailKeeps

\* A destination set, and nothing but it.
LEMMA SetDestination ==
    ASSUME NEW s, Good(s), NEW f \in {"insDestTree", "exeDestTree", "docDestTree", "destTree"},
           NEW tree, IsSeq(tree), NEW t, t = [s EXCEPT ![f] = tree]
    PROVE  /\ Good(t) /\ t[f] = tree /\ t.err = s.err /\ t.nonfatalMode = s.nonfatalMode /\ t.left = s.left
           /\ \A g \in {"insDestTree", "exeDestTree", "docDestTree", "destTree"} : g # f => t[g] = s[g]
  <1>1. t = [x \in Fields |-> t[x]] /\ t[f] = tree /\ \A x \in Fields : x # f => t[x] = s[x]
    BY Update DEF Good, Fields
  <1>2. IsSeq(t.insDestTree) /\ IsSeq(t.exeDestTree) /\ IsSeq(t.docDestTree) /\ IsSeq(t.destTree)
    BY <1>1 DEF Good, Fields
  <1>3. \A x \in Fields \ {"insDestTree", "exeDestTree", "docDestTree", "destTree"} : t[x] = s[x]
    BY <1>1
  <1>4. t.err = s.err /\ t.nonfatalMode = s.nonfatalMode /\ t.left = s.left /\ t.fs = s.fs /\ t.cwd = s.cwd
    BY <1>3 DEF Fields
  <1>5. Good(t)
    BY <1>1, <1>2, <1>4 DEF Good
  <1> QED BY <1>1, <1>4, <1>5 DEF Fields

\* doconfd and doenvd give the destination of doins back.
LEMMA DoinsToKeeps ==
    ASSUME NEW s, Good(s), NEW tree, IsSeq(tree), NEW args, AllPaths(args), NEW recursive
    PROVE  Kept(s, DoinsTo(s, tree, args, recursive))
  <1> DEFINE u == [s EXCEPT !.insDestTree = tree]
             r == Doins(u, args, recursive)
             t == [r EXCEPT !.insDestTree = s.insDestTree]
  <1>1. DoinsTo(s, tree, args, recursive) \in {Fail(s), t}
    BY DEF DoinsTo
  <1>2. /\ Good(u) /\ u.nonfatalMode = s.nonfatalMode
        /\ u.exeDestTree = s.exeDestTree /\ u.docDestTree = s.docDestTree /\ u.destTree = s.destTree
    BY SetDestination
  <1> HIDE DEF u
  <1>3. Kept(u, r)
    BY <1>2, ExeInsKeep
  <1> HIDE DEF r
  <1>4. Good(t) /\ t.insDestTree = s.insDestTree /\ t.nonfatalMode = r.nonfatalMode
        /\ t.exeDestTree = r.exeDestTree /\ t.docDestTree = r.docDestTree /\ t.destTree = r.destTree
    BY <1>3, SetDestination DEF Kept, Good
  <1> HIDE DEF t
  <1>5. Kept(s, t)
    BY <1>2, <1>3, <1>4 DEF Kept, Same
  <1> QED BY <1>1, <1>5, FailKeeps

\* A relative link leads along a path.
LEMMA RelativeSeq ==
    ASSUME NEW link, IsSeq(link), NEW target, IsSeq(target)
    PROVE  IsSeq(calculateRelativePath(link, target))
  <1> DEFINE dir == Front(link)
             Common(n) == /\ n <= Len(target) /\ SubSeq(dir, 1, n) = SubSeq(target, 1, n)
                          /\ n = Len(dir) \/ n = Len(target) \/ dir[n + 1] # target[n + 1]
             common == CHOOSE n \in 0..Len(dir) : Common(n)
             ups == [i \in 1..(Len(dir) - common) |-> ".."]
  <1>1. Len(dir) \in Nat /\ Len(target) \in Nat /\ dir \in Seq(Range(dir)) /\ target \in Seq(Range(target))
    BY SeqFront, SeqParts
  <1> HIDE DEF dir
  <1>2. \E n \in 0..Len(dir) : Common(n)
    <2> DEFINE G == {k \in 0..Len(dir) : k <= Len(target) /\ SubSeq(dir, 1, k) = SubSeq(target, 1, k)}
    <2>1. 0 \in G
      BY <1>1
    <2>2. SUFFICES ASSUME \A n \in 0..Len(dir) : ~Common(n) PROVE FALSE
      OBVIOUS
    <2>3. ASSUME NEW k \in 0..(Len(dir) - 1), k \in G PROVE k + 1 \in G
      <3>1. k \in 0..Len(dir) /\ k # Len(dir) /\ k \in Nat
        BY <1>1
      <3>2. k # Len(target) /\ dir[k + 1] = target[k + 1]
        BY <2>2, <2>3, <3>1
      <3>3. k + 1 \in 0..Len(dir) /\ k + 1 <= Len(target)
        BY <1>1, <2>3, <3>1, <3>2
      <3>4. SubSeq(dir, 1, k + 1) = Append(SubSeq(dir, 1, k), dir[k + 1])
        BY <1>1, <3>1
      <3>5. SubSeq(target, 1, k + 1) = Append(SubSeq(target, 1, k), target[k + 1])
        BY <1>1, <3>1, <3>3
      <3> QED BY <2>3, <3>2, <3>3, <3>4, <3>5
    <2>4. Len(dir) \in G
      <3> HIDE DEF G
      <3> QED BY <1>1, <2>1, <2>3, ResolveFold!UpTo
    <2> QED BY <1>1, <2>2, <2>4
  <1>3. common \in 0..Len(dir) /\ Common(common)
    BY <1>2
  <1>4. calculateRelativePath(link, target) = ups \o SubSeq(target, common + 1, Len(target))
    BY DEF calculateRelativePath, dir
  <1> HIDE DEF common
  <1>5. IsSeq(ups)
    <2>1. ups \in Seq({".."})
      BY <1>1, <1>3
    <2> QED BY <2>1, SeqIntro
  <1>6. IsSeq(SubSeq(target, common + 1, Len(target)))
    <2>1. common + 1 \in 1..(Len(target) + 1) /\ Len(target) \in 0..Len(target)
      BY <1>1, <1>3
    <2> QED BY <2>1, SeqCut
  <1> HIDE DEF ups
  <1> QED BY <1>4, <1>5, <1>6, SeqConcat

\* dosym makes a link in the image.
LEMMA DosymKeeps ==
    ASSUME NEW s, Good(s), NEW args, AllPaths(args), NEW relative
    PROVE  Kept(s, Dosym(s, args, relative))
  <1>1. CASE Len(args) < 2
    BY <1>1, FailKeeps DEF Dosym
  <1>2. CASE ~(Len(args) < 2)
    <2> DEFINE p == InImage(args[2])
               target == IF relative THEN calculateRelativePath(args[2], args[1]) ELSE args[1]
               d == MkdirAll(s, Front(p), M0755)
               r == TryRemove(d, p)
    <2>1. IsSeq(args[1]) /\ IsSeq(args[2])
      <3>1. Len(args) \in Nat /\ \A i \in 1..Len(args) : IsSeq(args[i])
        BY PathList
      <3> QED BY <1>2, <3>1
    <2>2. Dosym(s, args, relative) = Symlink(r, target, p)
      BY <1>2 DEF Dosym
    <2>3. IsSeq(p) /\ IsSeq(target)
      BY <2>1, PathSeq, RelativeSeq
    <2> HIDE DEF p, target
    <2>4. Kept(s, d)
      BY <2>3, SeqFront, MkdirAllKeeps
    <2> HIDE DEF d
    <2>5. Kept(s, r)
      BY <2>4, TryRemoveKeeps, KeptTwice DEF Kept
    <2> HIDE DEF r
    <2> QED BY <2>2, <2>3, <2>5, SymlinkKeeps, KeptTwice DEF Kept
  <1> QED BY <1>1, <1>2

FpermsTurn(mode, recursive, c, r, f) ==
    applyMode(r, InImage(f), mode, recursive)
FpermsFold == INSTANCE FoldFacts WITH op <- FpermsTurn, P <- Kept

\* fperms is chmod in the image.
LEMMA FpermsKeeps ==
    ASSUME NEW s, Good(s), NEW files, AllPaths(files), NEW mode, NEW recursive
    PROVE  Kept(s, Fperms(s, files, mode, recursive))
  <1>1. Fperms(s, files, mode, recursive) = FpermsFold!Run(mode, recursive, 0, s, files)
    BY DEF Fperms, FpermsTurn, FpermsFold!Run, FoldLeft, MapThenFoldSet, Max, FpermsFold!Largest
  <1>2. Len(files) \in Nat /\ DOMAIN files = 1..Len(files) /\ \A i \in 1..Len(files) : IsSeq(files[i])
    BY PathList
  <1>3. ASSUME NEW t, Good(t), NEW x, IsSeq(x) PROVE Kept(t, FpermsTurn(mode, recursive, 0, t, x))
    BY <1>3, PathSeq, applyModeKeeps DEF FpermsTurn
  <1>4. ASSUME NEW t, Kept(s, t), NEW i \in 1..Len(files) PROVE Kept(s, FpermsTurn(mode, recursive, 0, t, files[i]))
    BY <1>2, <1>3, <1>4, KeptTwice DEF Kept
  <1>5. Kept(s, s)
    BY KeptTwice
  <1>6. Kept(s, FpermsFold!Run(mode, recursive, 0, s, files))
    BY <1>2, <1>4, <1>5, FpermsFold!FoldKeeps
  <1> QED BY <1>1, <1>6

-----------------------------------------------------------------------------
(* Documentation *)

DomanTurn(a, b, c, r, f) ==
    LET src == resolveSourcePath(f) IN
    CASE ~Ok(r) -> r
      [] Ok(r) /\ (~Exists(r.fs, src) \/ IsDir(r.fs, src) \/ Last(f) \notin DOMAIN Ext) -> Fail(r)
      [] OTHER -> installFile(MkdirAll(r, ManDir(Last(f)), M0755), src,
                              Append(ManDir(Last(f)), Last(f)), M0644)
DomanFold == INSTANCE FoldFacts WITH op <- DomanTurn, P <- Kept

\* Manual pages, each to the directory of its section.
LEMMA DomanKeeps ==
    ASSUME NEW s, Good(s), NEW args, AllPaths(args)
    PROVE  Kept(s, Doman(s, args))
  <1>1. args # <<>> => Doman(s, args) = DomanFold!Run(0, 0, 0, s, args)
    BY DEF Doman, DomanTurn, DomanFold!Run, FoldLeft, MapThenFoldSet, Max, DomanFold!Largest
  <1>2. Len(args) \in Nat /\ DOMAIN args = 1..Len(args) /\ \A i \in 1..Len(args) : IsSeq(args[i])
    BY PathList
  <1>3. ASSUME NEW t, Good(t), NEW x, IsSeq(x) PROVE Kept(t, DomanTurn(0, 0, 0, t, x))
    <2> DEFINE dir == ManDir(Last(x))
               d == MkdirAll(t, dir, M0755)
               w == installFile(d, resolveSourcePath(x), Append(dir, Last(x)), M0644)
    <2>1. IsSeq(dir) /\ IsSeq(Append(dir, Last(x)))
      BY <1>3, HelperDirs, SeqAppend
    <2>2. DomanTurn(0, 0, 0, t, x) \in {t, Fail(t), w}
      BY DEF DomanTurn
    <2> HIDE DEF dir
    <2>3. Kept(t, d)
      BY <1>3, <2>1, MkdirAllKeeps
    <2> HIDE DEF d
    <2>4. Kept(t, w)
      BY <2>1, <2>3, installFileKeeps, KeptTwice DEF Kept
    <2> HIDE DEF w
    <2> QED BY <1>3, <2>2, <2>4, FailKeeps, KeptTwice
  <1>4. ASSUME NEW t, Kept(s, t), NEW i \in 1..Len(args) PROVE Kept(s, DomanTurn(0, 0, 0, t, args[i]))
    BY <1>2, <1>3, <1>4, KeptTwice DEF Kept
  <1>5. Kept(s, s)
    BY KeptTwice
  <1>6. Kept(s, DomanFold!Run(0, 0, 0, s, args))
    BY <1>2, <1>4, <1>5, DomanFold!FoldKeeps
  <1>7. args = <<>> => Doman(s, args) = Fail(s)
    BY DEF Doman
  <1> QED BY <1>1, <1>6, <1>7, FailKeeps

DomoTurn(a, b, c, r, f) ==
    LET dir == LocaleDir(r, Last(f)) IN
    IF ~Ok(r) \/ ~IsFile(r.fs, resolveSourcePath(f)) THEN Fail(r)
    ELSE installFile(MkdirAll(r, dir, M0755), resolveSourcePath(f), Append(dir, "PN.mo"), M0644)
DomoFold == INSTANCE FoldFacts WITH op <- DomoTurn, P <- Kept

\* Translations, each to the directory of its language.
LEMMA DomoKeeps ==
    ASSUME NEW s, Good(s), NEW args, AllPaths(args)
    PROVE  Kept(s, Domo(s, args))
  <1>1. args # <<>> => Domo(s, args) = DomoFold!Run(0, 0, 0, s, args)
    BY DEF Domo, DomoTurn, DomoFold!Run, FoldLeft, MapThenFoldSet, Max, DomoFold!Largest
  <1>2. Len(args) \in Nat /\ DOMAIN args = 1..Len(args) /\ \A i \in 1..Len(args) : IsSeq(args[i])
    BY PathList
  <1>3. ASSUME NEW t, Good(t), NEW x, IsSeq(x) PROVE Kept(t, DomoTurn(0, 0, 0, t, x))
    <2> DEFINE dir == LocaleDir(t, Last(x))
               d == MkdirAll(t, dir, M0755)
               w == installFile(d, resolveSourcePath(x), Append(dir, "PN.mo"), M0644)
    <2>1. IsSeq(dir) /\ IsSeq(Append(dir, "PN.mo"))
      BY <1>3, HelperDirs, SeqAppend
    <2>2. DomoTurn(0, 0, 0, t, x) \in {Fail(t), w}
      BY DEF DomoTurn
    <2> HIDE DEF dir
    <2>3. Kept(t, d)
      BY <1>3, <2>1, MkdirAllKeeps
    <2> HIDE DEF d
    <2>4. Kept(t, w)
      BY <2>1, <2>3, installFileKeeps, KeptTwice DEF Kept
    <2> HIDE DEF w
    <2> QED BY <1>3, <2>2, <2>4, FailKeeps
  <1>4. ASSUME NEW t, Kept(s, t), NEW i \in 1..Len(args) PROVE Kept(s, DomoTurn(0, 0, 0, t, args[i]))
    BY <1>2, <1>3, <1>4, KeptTwice DEF Kept
  <1>5. Kept(s, s)
    BY KeptTwice
  <1>6. Kept(s, DomoFold!Run(0, 0, 0, s, args))
    BY <1>2, <1>4, <1>5, DomoFold!FoldKeeps
  <1>7. args = <<>> => Domo(s, args) = Fail(s)
    BY DEF Domo
  <1> QED BY <1>1, <1>6, <1>7, FailKeeps

\* A manual page under another name, and text from standard input.
LEMMA NewmanKeeps ==
    ASSUME NEW s, Good(s), NEW args, AllPaths(args)
    PROVE  Kept(s, Newman(s, args))
  BY InstallAsKeeps, HelperDirs, FailKeeps DEF Newman

\* new* of what is on standard input.
LEMMA StdinKeeps ==
    ASSUME NEW s, Good(s), NEW cmd \in {"newins", "newdoc", "newman"}, NEW name
    PROVE  Kept(s, NewinsFromStdin(s, cmd, name))
  <1> DEFINE dir == CASE cmd = "newdoc" -> getDocDir(s)
                      [] cmd = "newman" -> IF name \in DOMAIN Ext THEN ManDir(name)
                                           ELSE InImage(<<"usr", "share", "man", "1">>)
                      [] cmd = "newins" -> InImage(s.insDestTree)
             w == WriteFile(MkdirAll(s, dir, M0755), Append(dir, name), <<"stdin">>, parseMode(s.insOpts))
  <1>1. IsSeq(dir)
    <2>1. IsSeq(InImage(<<"usr", "share", "man", "1">>))
      BY SeqLiterals, PathSeq
    <2>2. IsSeq(getDocDir(s)) /\ IsSeq(ManDir(name)) /\ IsSeq(InImage(s.insDestTree))
      BY HelperDirs
    <2> HIDE DEF IsSeq
    <2>3. CASE cmd = "newdoc"
      BY <2>2, <2>3
    <2>4. CASE cmd = "newman"
      BY <2>1, <2>2, <2>4
    <2>5. CASE cmd = "newins"
      BY <2>2, <2>5
    <2> QED BY <2>3, <2>4, <2>5
  <1>2. NewinsFromStdin(s, cmd, name) = WithMode(s, s.insOpts, w)
    BY DEF NewinsFromStdin
  <1> HIDE DEF dir
  <1>3. Kept(s, w)
    BY <1>1, SeqAppend, WriteBelowKeeps
  <1> HIDE DEF w
  <1> QED BY <1>2, <1>3, WithModeKeeps

\* One file or directory of DOCS.
LEMMA DocKeeps ==
    ASSUME NEW s, Good(s), NEW p, IsSeq(p), NEW recursive
    PROVE  Kept(s, Dodoc(s, <<p>>, recursive)) /\ Kept(s, OrWarn(s, p))
  <1>1. AllPaths(<<p>>)
    <2>1. IsSeq(<<p>>)
      BY SeqLiterals
    <2> QED BY <2>1 DEF AllPaths
  <1>2. \A r : Kept(s, Dodoc(s, <<p>>, r))
    BY <1>1, HeadersKeep
  <1> DEFINE d == Dodoc(s, <<p>>, FALSE)
  <1>3. Kept(s, d) /\ OrWarn(s, p) = [d EXCEPT !.err = "none"]
    BY <1>2 DEF OrWarn
  <1> HIDE DEF d
  <1>4. Kept(d, [d EXCEPT !.err = "none"])
    BY <1>3, SetErr DEF Kept
  <1> QED BY <1>2, <1>3, <1>4, KeptTwice

installDocFilesTurn(a, b, c, r, p) == IF ~Ok(r) \/ ~Exists(r.fs, p) THEN r ELSE Dodoc(r, <<p>>, IsDir(r.fs, p))
installDocFilesFold == INSTANCE FoldFacts WITH op <- installDocFilesTurn, P <- Kept

\* What DOCS or HTML_DOCS names.
LEMMA installDocFilesKeeps ==
    ASSUME NEW s, Good(s), NEW docs, AllPaths(docs)
    PROVE  Kept(s, installDocFiles(s, docs))
  <1> DEFINE paths == [i \in DOMAIN docs |-> resolveSourcePath(docs[i])]
  <1>1. installDocFiles(s, docs) = installDocFilesFold!Run(0, 0, 0, s, paths)
    BY DEF installDocFiles, installDocFilesTurn, installDocFilesFold!Run, FoldLeft, MapThenFoldSet, Max, installDocFilesFold!Largest
  <1>2. Len(docs) \in Nat /\ DOMAIN paths = 1..Len(docs) /\ \A i \in 1..Len(docs) : IsSeq(paths[i])
    BY PathList, PathSeq
  <1> HIDE DEF paths
  <1>3. ASSUME NEW t, Kept(s, t), NEW i \in 1..Len(docs) PROVE Kept(s, installDocFilesTurn(0, 0, 0, t, paths[i]))
    <2>1. installDocFilesTurn(0, 0, 0, t, paths[i]) \in {t, Dodoc(t, <<paths[i]>>, IsDir(t.fs, paths[i]))}
      BY DEF installDocFilesTurn
    <2>2. Kept(t, Dodoc(t, <<paths[i]>>, IsDir(t.fs, paths[i])))
      BY <1>2, <1>3, DocKeeps DEF Kept
    <2> QED BY <1>3, <2>1, <2>2, KeptTwice
  <1>4. Kept(s, s)
    BY KeptTwice
  <1> QED BY <1>1, <1>2, <1>3, <1>4, installDocFilesFold!FoldKeeps

installStandardDocsTurn(a, b, c, r, f) ==
    IF IsFile(r.fs, resolveSourcePath(f)) THEN OrWarn(r, resolveSourcePath(f)) ELSE r
installStandardDocsFold == INSTANCE FoldFacts WITH op <- installStandardDocsTurn, P <- Kept

\* What the patterns match.
LEMMA installStandardDocsKeeps ==
    ASSUME NEW s, Good(s)
    PROVE  Kept(s, installStandardDocs(s))
  <1>1. installStandardDocs(s) = installStandardDocsFold!Run(0, 0, 0, s, StandardDocs)
    BY DEF installStandardDocs, installStandardDocsTurn, installStandardDocsFold!Run, FoldLeft, MapThenFoldSet, Max, installStandardDocsFold!Largest
  <1>2. /\ Len(StandardDocs) \in Nat /\ DOMAIN StandardDocs = 1..Len(StandardDocs)
        /\ \A i \in 1..Len(StandardDocs) : IsSeq(StandardDocs[i])
    BY PathList, TreeAssumption
  <1>3. ASSUME NEW t, Kept(s, t), NEW i \in 1..Len(StandardDocs)
        PROVE  Kept(s, installStandardDocsTurn(0, 0, 0, t, StandardDocs[i]))
    <2>1. Kept(t, OrWarn(t, resolveSourcePath(StandardDocs[i])))
      BY <1>2, <1>3, PathSeq, DocKeeps DEF Kept
    <2> QED BY <1>3, <2>1, KeptTwice DEF installStandardDocsTurn
  <1>4. Kept(s, s)
    BY KeptTwice
  <1> QED BY <1>1, <1>2, <1>3, <1>4, installStandardDocsFold!FoldKeeps

\* einstalldocs gives the destination of dodoc back.
LEMMA EinstalldocsKeeps ==
    ASSUME NEW s, Good(s)
    PROVE  Kept(s, Einstalldocs(s))
  <1> DEFINE d == installDocFiles(s, Docs)
             n == installStandardDocs(d)
             h == [n EXCEPT !.docDestTree = <<"html">>]
             r == installDocFiles(h, HtmlDocs)
             t == [r EXCEPT !.docDestTree = d.docDestTree]
  <1>1. Einstalldocs(s) \in {d, t}
    BY DEF Einstalldocs, HtmlDocsAfter
  <1>2. Kept(s, d)
    BY installDocFilesKeeps, TreeAssumption
  <1> HIDE DEF d
  <1>3. Kept(d, n)
    BY <1>2, installStandardDocsKeeps DEF Kept
  <1> HIDE DEF n
  <1>4. /\ Good(h) /\ h.nonfatalMode = n.nonfatalMode
        /\ h.insDestTree = n.insDestTree /\ h.exeDestTree = n.exeDestTree /\ h.destTree = n.destTree
    BY <1>3, SetDestination, SeqLiterals DEF Kept
  <1> HIDE DEF h
  <1>5. Kept(h, r)
    BY <1>4, installDocFilesKeeps, TreeAssumption
  <1> HIDE DEF r
  <1>6. /\ Good(t) /\ t.nonfatalMode = r.nonfatalMode /\ t.docDestTree = d.docDestTree
        /\ t.insDestTree = r.insDestTree /\ t.exeDestTree = r.exeDestTree /\ t.destTree = r.destTree
    BY <1>2, <1>5, SetDestination DEF Kept, Good
  <1> HIDE DEF t
  <1>7. Kept(d, t)
    BY <1>3, <1>4, <1>5, <1>6 DEF Kept, Same
  <1> QED BY <1>1, <1>2, <1>7, KeptTwice

installDocsFormat4Turn(a, b, c, r, p) ==
    IF IsFile(r.fs, p) /\ r.fs[Follow(r.fs, p)].data # <<>> THEN OrWarn(r, p) ELSE r
installDocsFormat4Fold == INSTANCE FoldFacts WITH op <- installDocsFormat4Turn, P <- Kept

\* DOCS or the patterns, as EAPI 4 and 5 have it.
LEMMA installDocsFormat4Keeps ==
    ASSUME NEW s, Good(s)
    PROVE  Kept(s, installDocsFormat4(s))
  <1> DEFINE docs == IF Docs # <<>> THEN Docs ELSE StandardDocs
             paths == [i \in DOMAIN docs |-> resolvePath(s, docs[i])]
  <1>1. installDocsFormat4(s) = installDocsFormat4Fold!Run(0, 0, 0, s, paths)
    BY DEF installDocsFormat4, installDocsFormat4Turn, installDocsFormat4Fold!Run, FoldLeft, MapThenFoldSet, Max, installDocsFormat4Fold!Largest
  <1>2. Len(docs) \in Nat /\ DOMAIN paths = 1..Len(docs) /\ \A i \in 1..Len(docs) : IsSeq(paths[i])
    <2>1. AllPaths(docs)
      BY TreeAssumption
    <2> HIDE DEF docs
    <2>2. Len(docs) \in Nat /\ DOMAIN docs = 1..Len(docs) /\ \A i \in 1..Len(docs) : IsSeq(docs[i])
      BY <2>1, PathList
    <2>3. \A i \in 1..Len(docs) : IsSeq(resolvePath(s, docs[i]))
      BY <2>2, PathSeq DEF Good
    <2> QED BY <2>2, <2>3
  <1> HIDE DEF paths, docs
  <1>3. ASSUME NEW t, Kept(s, t), NEW i \in 1..Len(docs) PROVE Kept(s, installDocsFormat4Turn(0, 0, 0, t, paths[i]))
    <2>1. Kept(t, OrWarn(t, paths[i]))
      BY <1>2, <1>3, DocKeeps DEF Kept
    <2>2. installDocsFormat4Turn(0, 0, 0, t, paths[i]) \in {t, OrWarn(t, paths[i])}
      BY DEF installDocsFormat4Turn
    <2> QED BY <1>3, <2>1, <2>2, KeptTwice
  <1>4. Kept(s, s)
    BY KeptTwice
  <1> QED BY <1>1, <1>2, <1>3, <1>4, installDocsFormat4Fold!FoldKeeps

-----------------------------------------------------------------------------
(* Build commands and default phases *)

\* make writes into the image what it writes, configure nothing.
LEMMA EmakeKeeps ==
    ASSUME NEW s, Good(s), NEW ok, NEW installs
    PROVE  Kept(s, Emake(s, ok, installs)) /\ Kept(s, Econf(s, ok))
  <1> DEFINE w == Change(s, Over(MakeInstalls, s.fs))
  <1>1. Emake(s, ok, installs) \in {s, Fail(s), w} /\ Econf(s, ok) \in {s, Fail(s)}
    BY DEF Emake, Econf
  <1>2. IsTree(Over(MakeInstalls, s.fs))
    BY TreeAssumption, TreeOver DEF Good
  <1>3. Kept(s, w)
    BY <1>2, ChangeKeeps
  <1> HIDE DEF w
  <1> QED BY <1>1, <1>3, FailKeeps, KeptTwice

\* One patch.
LEMMA applyPatchFileKeeps ==
    ASSUME NEW s, Good(s), NEW p
    PROVE  Kept(s, applyPatchFile(s, p))
  <1> DEFINE f == PatchOf[p]
             fs == [s.fs EXCEPT ![f].data = Append(s.fs[f].data, p)]
             w == Change(s, fs)
  <1>1. applyPatchFile(s, p) \in {Fail(s), w}
    BY DEF applyPatchFile
  <1> HIDE DEF f
  <1>2. f \in DOMAIN s.fs /\ s.fs[f].kind = "link" => IsSeq(Append(s.fs[f].data, p))
    BY SeqAppend DEF Good, IsTree, IsNode
  <1>3. IsTree(fs)
    BY <1>2, TreeEdit DEF Good
  <1> HIDE DEF fs
  <1>4. Kept(s, w)
    BY <1>3, ChangeKeeps
  <1> HIDE DEF w
  <1> QED BY <1>1, <1>4, FailKeeps

EapplyTurn(a, b, c, r, p) == IF Last(p) \in DOMAIN PatchOf THEN applyPatchFile(r, Last(p)) ELSE Fail(r)
EapplyFold == INSTANCE FoldFacts WITH op <- EapplyTurn, P <- Kept
EapplyUserTurn(a, b, c, r, p) == applyPatchFile(r, p)
EapplyUserFold == INSTANCE FoldFacts WITH op <- EapplyUserTurn, P <- Kept

\* The patches of an ebuild.
LEMMA EapplyKeeps ==
    ASSUME NEW s, Good(s), NEW patches, IsSeq(patches)
    PROVE  Kept(s, Eapply(s, patches))
  <1>1. Eapply(s, patches) \in {Fail(s), EapplyFold!Run(0, 0, 0, s, patches)}
    BY DEF Eapply, EapplyTurn, EapplyFold!Run, FoldLeft, MapThenFoldSet, Max, EapplyFold!Largest
  <1>2. Len(patches) \in Nat /\ DOMAIN patches = 1..Len(patches)
    BY SeqParts
  <1>3. ASSUME NEW t, Kept(s, t), NEW i \in 1..Len(patches) PROVE Kept(s, EapplyTurn(0, 0, 0, t, patches[i]))
    BY <1>3, applyPatchFileKeeps, FailKeeps, KeptTwice DEF EapplyTurn, Kept
  <1>4. Kept(s, s)
    BY KeptTwice
  <1>5. Kept(s, EapplyFold!Run(0, 0, 0, s, patches))
    BY <1>2, <1>3, <1>4, EapplyFold!FoldKeeps
  <1> QED BY <1>1, <1>5, FailKeeps

\* The patches of the user.
LEMMA EapplyUserKeeps ==
    ASSUME NEW s, Good(s)
    PROVE  Kept(s, EapplyUser(s))
  <1>1. EapplyUser(s) = EapplyUserFold!Run(0, 0, 0, s, UserPatches)
    BY DEF EapplyUser, EapplyUserTurn, EapplyUserFold!Run, FoldLeft, MapThenFoldSet, Max, EapplyUserFold!Largest
  <1>2. Len(UserPatches) \in Nat /\ DOMAIN UserPatches = 1..Len(UserPatches)
    BY SeqParts, TreeAssumption
  <1>3. ASSUME NEW t, Kept(s, t), NEW i \in 1..Len(UserPatches)
        PROVE  Kept(s, EapplyUserTurn(0, 0, 0, t, UserPatches[i]))
    BY <1>3, applyPatchFileKeeps, KeptTwice DEF EapplyUserTurn, Kept
  <1>4. Kept(s, s)
    BY KeptTwice
  <1> QED BY <1>1, <1>2, <1>3, <1>4, EapplyUserFold!FoldKeeps

\* The default of each phase.
LEMMA DefaultKeeps ==
    ASSUME NEW s, Good(s), NEW ok, phase \in Phases
    PROVE  Kept(s, Default(s, ok))
  <1>1. Kept(s, s) /\ Kept(s, Fail(s))
    BY KeptTwice, FailKeeps
  <1>2. Kept(s, DefaultSrcUnpack(s))
    BY <1>1, UnpackKeeps, TreeAssumption DEF DefaultSrcUnpack
  <1>3. Kept(s, DefaultSrcPrepare(s))
    <2> DEFINE t == IF Patches = <<>> THEN s ELSE Eapply(s, Patches)
    <2>1. Kept(s, t)
      BY <1>1, EapplyKeeps, TreeAssumption DEF AllPaths
    <2>2. DefaultSrcPrepare(s) \in {s, Fail(s), EapplyUser(t)}
      BY DEF DefaultSrcPrepare
    <2> HIDE DEF t
    <2>3. Kept(s, EapplyUser(t))
      BY <2>1, EapplyUserKeeps, KeptTwice DEF Kept
    <2> QED BY <1>1, <2>2, <2>3
  <1>4. Kept(s, DefaultSrcConfigure(s, ok))
    BY <1>1, EmakeKeeps DEF DefaultSrcConfigure
  <1>5. Kept(s, DefaultSrcCompile(s, ok)) /\ Kept(s, DefaultSrcTest(s, ok))
    BY <1>1, EmakeKeeps DEF DefaultSrcCompile, DefaultSrcTest
  <1>6. Kept(s, DefaultSrcInstall(s, ok))
    <2> DEFINE made == IF hasMakefile(s) THEN Emake(s, ok, TRUE) ELSE s
    <2>1. Kept(s, made)
      BY <1>1, EmakeKeeps
    <2>2. DefaultSrcInstall(s, ok) \in {Fail(s), made, Einstalldocs(made), installDocsFormat4(made)}
      BY DEF DefaultSrcInstall
    <2> HIDE DEF made
    <2>3. Kept(s, Einstalldocs(made)) /\ Kept(s, installDocsFormat4(made))
      BY <2>1, EinstalldocsKeeps, installDocsFormat4Keeps, KeptTwice DEF Kept
    <2> QED BY <1>1, <2>1, <2>2, <2>3
  <1>7. phase \in {"unpack", "prepare", "configure", "compile", "test", "install"}
    BY ScriptAssumption
  <1> HIDE DEF Kept
  <1> QED BY <1>2, <1>3, <1>4, <1>5, <1>6, <1>7 DEF Default

-----------------------------------------------------------------------------
(* Commands *)

\* Options, the directory and the recorded status are not kept apart.
LEMMA SetOther ==
    ASSUME NEW s, Good(s), NEW f \in {"insOpts", "exeOpts", "dirOpts", "lastExitStatus"}, NEW v,
           NEW t, t = [s EXCEPT ![f] = v]
    PROVE  Kept(s, t) /\ t.err = s.err /\ t.left = s.left
  <1>1. t = [x \in Fields |-> t[x]] /\ \A x \in Fields : x # f => t[x] = s[x]
    BY Update DEF Good, Fields
  <1>2. \A x \in Fields \ {"insOpts", "exeOpts", "dirOpts", "lastExitStatus"} : t[x] = s[x]
    BY <1>1
  <1> QED BY <1>1, <1>2 DEF Kept, Same, Good, Fields

\* The directory of the script.
LEMMA SetCwd ==
    ASSUME NEW s, Good(s), NEW dir, IsSeq(dir), NEW t, t = [s EXCEPT !.cwd = dir]
    PROVE  Kept(s, t) /\ t.err = s.err
  <1>1. t = [x \in Fields |-> t[x]] /\ t["cwd"] = dir /\ \A x \in Fields : x # "cwd" => t[x] = s[x]
    BY Update DEF Good, Fields
  <1> QED BY <1>1 DEF Kept, Same, Good, Fields

\* die is an error, under nonfatal a status.
LEMMA DieKeeps ==
    ASSUME NEW s, Good(s)
    PROVE  Kept(s, Die(s)) /\ Kept(s, AssertStatus(s)) /\ (~s.nonfatalMode /\ s.err = "none" => Die(s).err = "die")
  <1> DEFINE t == [s EXCEPT !.lastExitStatus = 1]
  <1>1. Kept(s, t)
    BY SetOther
  <1>2. Die(s) = IF s.nonfatalMode THEN False(t) ELSE Fail(s)
    BY DEF Die
  <1> HIDE DEF t
  <1>3. Kept(s, False(t))
    BY <1>1, FailKeeps, KeptTwice DEF Kept
  <1>4. Kept(s, Die(s)) /\ Kept(s, s)
    BY <1>2, <1>3, FailKeeps, KeptTwice
  <1>5. s.err = "none" => Fail(s).err = "die"
    BY SetErr DEF Fail, Ok
  <1> QED BY <1>2, <1>4, <1>5 DEF AssertStatus

\* Every install helper.
LEMMA InstallHelperKeeps ==
    ASSUME NEW s, Good(s), NEW c, c.cmd \in InstallHelpers, AllPaths(c.args)
    PROVE  Kept(s, InstallHelper(s, c))
  <1>1. /\ Kept(s, Dobin(s, c.args)) /\ Kept(s, Dosbin(s, c.args)) /\ Kept(s, Newbin(s, c.args))
        /\ Kept(s, Newsbin(s, c.args)) /\ Kept(s, Doexe(s, c.args)) /\ Kept(s, Newins(s, c.args))
        /\ Kept(s, Doins(s, c.args, c.flag))
    BY ExeInsKeep
  <1>2. /\ Kept(s, DolibA(s, c.args)) /\ Kept(s, Doinitd(s, c.args)) /\ Kept(s, Doinfo(s, c.args))
        /\ Kept(s, Doheader(s, c.args, c.flag)) /\ Kept(s, Dodoc(s, c.args, c.flag)) /\ Kept(s, Newdoc(s, c.args))
    BY HeadersKeep
  <1>3. Kept(s, Dolib(s, c.args)) /\ Kept(s, DolibSo(s, c.args))
    BY DolibKeeps, DolibSoKeeps
  <1>4. Kept(s, Doconfd(s, c.args, c.flag)) /\ Kept(s, Doenvd(s, c.args, c.flag))
    BY SeqLiterals, DoinsToKeeps DEF Doconfd, Doenvd
  <1>5. Kept(s, Doman(s, c.args)) /\ Kept(s, Newman(s, c.args)) /\ Kept(s, Domo(s, c.args))
    BY DomanKeeps, NewmanKeeps, DomoKeeps
  <1> HIDE DEF Kept
  <1> QED BY <1>1, <1>2, <1>3, <1>4, <1>5 DEF InstallHelper, InstallHelpers

\* The commands that set a destination.
Setters == {"insinto", "exeinto", "docinto", "into"}

\* The file tools, by name.
LEMMA ToolKeeps ==
    ASSUME NEW s, Good(s), NEW c, AllPaths(c.args), c.cmd \in {"cp", "mv"} => c.args # <<>>,
           c.cmd \in {"sed", "cat", "grep", "mkdir", "rm", "cp", "mv", "chmod", "ln", "touch", "install"}
    PROVE  Kept(s, Command(s, c))
  <1>1. Kept(s, Sed(s, c.args, c.flag)) /\ Kept(s, Cat(s, c.args)) /\ Kept(s, Mkdir(s, c.args, c.flag))
    BY SedKeeps, CatKeeps, MkdirKeeps
  <1>2. Kept(s, Grep(s, Last(Head(c.args)), Tail(c.args)))
    BY FailKeeps, KeptTwice DEF Grep
  <1>3. Kept(s, Rm(s, c.args, c.flag, c.ok)) /\ Kept(s, Chmod(s, c.args, c.opts, c.flag))
    BY RmKeeps, ChmodKeeps
  <1>4. /\ c.cmd = "cp" => Kept(s, Cp(s, Front(c.args), Last(c.args), c.flag))
        /\ c.cmd = "mv" => Kept(s, Mv(s, Front(c.args), Last(c.args)))
    BY ArgSeq, CpKeeps, MvKeeps
  <1>5. Kept(s, Ln(s, c.args, c.ok)) /\ Kept(s, Touch(s, c.args)) /\ Kept(s, Install(s, c.args, c.opts.mode, c.flag))
    BY LnKeeps, TouchKeeps, InstallKeeps
  <1> HIDE DEF Kept
  <1> QED BY <1>1, <1>2, <1>3, <1>4, <1>5 DEF Command, InstallHelpers, BannedFrom

\* The helpers that install nothing by name, and the build commands.
LEMMA BuildCommandKeeps ==
    ASSUME NEW s, Good(s), NEW c, AllPaths(c.args), phase \in Phases,
           c.cmd \in {"dodir", "keepdir", "dosym", "fperms", "einstalldocs", "default", "emake", "econf",
                      "unpack", "eapply", "eapply_user"}
    PROVE  Kept(s, Command(s, c))
  <1>1. Kept(s, Dodir(s, c.args)) /\ Kept(s, Keepdir(s, c.args)) /\ Kept(s, Dosym(s, c.args, c.flag))
    BY DodirKeeps, KeepdirKeeps, DosymKeeps
  <1>2. Kept(s, Fperms(s, c.args, c.opts, c.flag)) /\ Kept(s, Einstalldocs(s)) /\ Kept(s, Default(s, c.ok))
    BY FpermsKeeps, EinstalldocsKeeps, DefaultKeeps
  <1>3. Kept(s, Emake(s, c.ok, FALSE)) /\ Kept(s, Econf(s, c.ok)) /\ Kept(s, Unpack(s, c.args, Archives))
    BY EmakeKeeps, UnpackKeeps
  <1>4. Kept(s, Eapply(s, c.args)) /\ Kept(s, EapplyUser(s))
    BY EapplyKeeps, EapplyUserKeeps DEF AllPaths
  <1> HIDE DEF Kept
  <1> QED BY <1>1, <1>2, <1>3, <1>4 DEF Command, InstallHelpers, BannedFrom

\* Options, tests, die and the commands that are banned one day.
LEMMA StatusCommandKeeps ==
    ASSUME NEW s, Good(s), NEW c,
           c.cmd \in {"insopts", "exeopts", "diropts", "use", "die", "assert"} \cup DOMAIN BannedFrom
    PROVE  Kept(s, Command(s, c)) /\ (c.cmd = "die" => Command(s, c) = Die(s))
  <1>1. Kept(s, Insopts(s, c.opts)) /\ Kept(s, Exeopts(s, c.opts)) /\ Kept(s, Diropts(s, c.opts))
    BY SetOther DEF Insopts, Exeopts, Diropts
  <1>2. Kept(s, Test(s, c.ok)) /\ Kept(s, OldCommand(s, c.cmd, c.ok))
    BY FailKeeps, KeptTwice DEF Test, OldCommand
  <1>3. Kept(s, Die(s)) /\ Kept(s, AssertStatus(s))
    BY DieKeeps
  <1>4. CASE c.cmd \in DOMAIN BannedFrom
    <2>1. c.cmd \notin InstallHelpers /\ c.cmd # "die"
      BY <1>4 DEF InstallHelpers, BannedFrom
    <2>2. Command(s, c) = OldCommand(s, c.cmd, c.ok)
      BY <1>4, <2>1 DEF Command, InstallHelpers, BannedFrom
    <2> QED BY <1>2, <2>1, <2>2
  <1>5. CASE c.cmd \in {"insopts", "exeopts", "diropts", "use", "die", "assert"}
    <2> HIDE DEF Kept
    <2> QED BY <1>1, <1>2, <1>3, <1>5 DEF Command, InstallHelpers, BannedFrom
  <1> QED BY <1>4, <1>5

\* A command sets the destination that it is to set, and no other.
LEMMA CommandSets ==
    ASSUME NEW s, Good(s), NEW c, AllPaths(c.args), phase \in Phases, Destinations(s) = told,
           c.cmd \in KnownCommands \ {"cd"}, c.cmd \in {"cp", "mv"} => c.args # <<>>
    PROVE  LET t == Command(s, c) IN
           /\ Good(t) /\ t.nonfatalMode = s.nonfatalMode /\ Destinations(t) = Asked(c)
           /\ c.cmd = "die" => t = Die(s)
  <1>1. CASE c.cmd \notin Setters
    <2>1. Kept(s, Command(s, c)) /\ (c.cmd = "die" => Command(s, c) = Die(s))
      <3>1. CASE c.cmd \in InstallHelpers
        <4>1. c.cmd # "die"
          BY <3>1 DEF InstallHelpers
        <4>2. Command(s, c) = InstallHelper(s, c)
          BY <3>1 DEF Command, InstallHelpers, BannedFrom
        <4> QED BY <3>1, <4>1, <4>2, InstallHelperKeeps
      <3>2. CASE c.cmd \in {"sed", "cat", "grep", "mkdir", "rm", "cp", "mv", "chmod", "ln", "touch", "install"}
        <4>1. c.cmd # "die"
          BY <3>2
        <4> QED BY <3>2, <4>1, ToolKeeps
      <3>3. CASE c.cmd \in {"dodir", "keepdir", "dosym", "fperms", "einstalldocs", "default", "emake", "econf",
                            "unpack", "eapply", "eapply_user"}
        <4>1. c.cmd # "die"
          BY <3>3
        <4> QED BY <3>3, <4>1, BuildCommandKeeps
      <3>4. CASE c.cmd \in {"insopts", "exeopts", "diropts", "use", "die", "assert"} \cup DOMAIN BannedFrom
        BY <3>4, StatusCommandKeeps
      <3> QED BY <1>1, <3>1, <3>2, <3>3, <3>4 DEF KnownCommands, Setters
    <2>2. Asked(c) = told
      BY <1>1 DEF Asked, Setters
    <2> QED BY <2>1, <2>2 DEF Kept, Same, Destinations
  <1>2. CASE c.cmd \in Setters
    <2>1. Len(c.args) \in Nat /\ (c.args # <<>> => IsSeq(c.args[1]))
      BY PathList, ArgSeq
    <2>2. c.cmd # "die" /\ Kept(s, Fail(s))
      BY <1>2, FailKeeps DEF Setters
    <2>3. Good(Fail(s)) /\ Fail(s).nonfatalMode = s.nonfatalMode /\ Destinations(Fail(s)) = told
      BY <2>2 DEF Kept, Same, Destinations
    <2>4. CASE c.cmd = "insinto"
      <3> DEFINE t == [s EXCEPT !.insDestTree = c.args[1]]
      <3>1. Command(s, c) = IF c.args = <<>> THEN Fail(s) ELSE t
        BY <2>4 DEF Command, Insinto, InstallHelpers, BannedFrom
      <3>2. Asked(c) = IF c.args = <<>> THEN told ELSE [told EXCEPT !.ins = c.args[1]]
        BY <2>4 DEF Asked
      <3>3. c.args # <<>> => /\ Good(t) /\ t.nonfatalMode = s.nonfatalMode /\ t.insDestTree = c.args[1]
                             /\ t.exeDestTree = s.exeDestTree /\ t.docDestTree = s.docDestTree
                             /\ t.destTree = s.destTree
        BY <2>1, SetDestination
      <3> HIDE DEF t
      <3>4. c.args # <<>> => Destinations(t) = [told EXCEPT !.ins = c.args[1]]
        BY <3>3 DEF Destinations
      <3> QED BY <2>2, <2>3, <3>1, <3>2, <3>3, <3>4
    <2>5. CASE c.cmd = "exeinto"
      <3> DEFINE t == [s EXCEPT !.exeDestTree = c.args[1]]
      <3>1. Command(s, c) = IF c.args = <<>> THEN Fail(s) ELSE t
        BY <2>5 DEF Command, Exeinto, InstallHelpers, BannedFrom
      <3>2. Asked(c) = IF c.args = <<>> THEN told ELSE [told EXCEPT !.exe = c.args[1]]
        BY <2>5 DEF Asked
      <3>3. c.args # <<>> => /\ Good(t) /\ t.nonfatalMode = s.nonfatalMode /\ t.exeDestTree = c.args[1]
                             /\ t.insDestTree = s.insDestTree /\ t.docDestTree = s.docDestTree
                             /\ t.destTree = s.destTree
        BY <2>1, SetDestination
      <3> HIDE DEF t
      <3>4. c.args # <<>> => Destinations(t) = [told EXCEPT !.exe = c.args[1]]
        BY <3>3 DEF Destinations
      <3> QED BY <2>2, <2>3, <3>1, <3>2, <3>3, <3>4
    <2>6. CASE c.cmd = "docinto"
      <3> DEFINE tree == IF c.args = <<>> THEN <<>> ELSE c.args[1]
                 t == [s EXCEPT !.docDestTree = tree]
      <3>1. Command(s, c) = t /\ Asked(c) = [told EXCEPT !.doc = tree]
        BY <2>6 DEF Command, Docinto, Asked, InstallHelpers, BannedFrom
      <3>2. IsSeq(tree)
        <4>1. IsSeq(<<>>)
          BY SeqLiterals
        <4> QED BY <2>1, <4>1
      <3> HIDE DEF tree
      <3>3. /\ Good(t) /\ t.nonfatalMode = s.nonfatalMode /\ t.docDestTree = tree
            /\ t.insDestTree = s.insDestTree /\ t.exeDestTree = s.exeDestTree /\ t.destTree = s.destTree
        BY <3>2, SetDestination
      <3> HIDE DEF t
      <3>4. Destinations(t) = [told EXCEPT !.doc = tree]
        BY <3>3 DEF Destinations
      <3> QED BY <2>2, <3>1, <3>3, <3>4
    <2>7. CASE c.cmd = "into"
      <3> DEFINE tree == IF c.args[1] = <<>> THEN <<"usr">> ELSE c.args[1]
                 u == [s EXCEPT !.destTree = tree]
                 t == MkdirAll(u, InImage(tree), M0755)
      <3>1. Command(s, c) = IF Len(c.args) # 1 THEN Fail(s) ELSE t
        BY <2>7 DEF Command, IntoTree, InstallHelpers, BannedFrom
      <3>2. Asked(c) = IF Len(c.args) # 1 THEN told ELSE [told EXCEPT !.dest = tree]
        BY <2>7 DEF Asked
      <3>3. Len(c.args) = 1 => IsSeq(tree)
        <4>1. IsSeq(<<"usr">>)
          BY SeqLiterals
        <4>2. Len(c.args) = 1 => c.args # <<>>
          <5>1. Len(<<>>) = 0
            OBVIOUS
          <5>2. c.args = <<>> => Len(c.args) = 0
            BY <5>1, Zenon
          <5> QED BY <5>2
        <4> QED BY <2>1, <4>1, <4>2
      <3> HIDE DEF tree
      <3>4. Len(c.args) = 1 =>
              /\ Good(u) /\ u.nonfatalMode = s.nonfatalMode /\ u.destTree = tree
              /\ u.insDestTree = s.insDestTree /\ u.exeDestTree = s.exeDestTree /\ u.docDestTree = s.docDestTree
        BY <3>3, SetDestination
      <3> HIDE DEF u
      <3>5. Len(c.args) = 1 => Kept(u, t)
        BY <3>3, <3>4, PathSeq, MkdirAllKeeps
      <3> HIDE DEF t
      <3>6. Len(c.args) = 1 => Destinations(t) = [told EXCEPT !.dest = tree]
        BY <3>4, <3>5 DEF Destinations, Kept, Same
      <3>7. Len(c.args) = 1 => Good(t) /\ t.nonfatalMode = s.nonfatalMode
        BY <3>4, <3>5 DEF Kept, Same
      <3> QED BY <2>2, <2>3, <3>1, <3>2, <3>6, <3>7
    <2> QED BY <1>2, <2>4, <2>5, <2>6, <2>7 DEF Setters
  <1> QED BY <1>1, <1>2

-----------------------------------------------------------------------------
(* The phase *)

\* The inductive invariant: between two commands the state of the helpers is
\* well formed, no error is pending, nonfatal mode is off, the destinations
\* are those the script has set, and what had to end the phase has ended it.
PhaseInv ==
    /\ Good(st) /\ st.err = "none" /\ st.nonfatalMode = FALSE
    /\ DestinationsAsTold /\ DieEndsPhase
    /\ phase \in Phases /\ eapi \in EAPIs

\* What a command may be given: the calls of the script.
LEMMA Calls ==
    ASSUME NEW c \in Menu[phase], phase \in Phases
    PROVE  /\ c.cmd \in KnownCommands /\ AllPaths(c.args)
           /\ c.cmd \in {"cd", "grep", "cp", "mv"} => c.args # <<>>
  BY ScriptAssumption

\* What a command leaves, with what it was asked for.
Result(s, t, c) ==
    /\ Good(t) /\ t.nonfatalMode = s.nonfatalMode /\ Destinations(t) = Asked(c)
    /\ c.cmd = "die" /\ ~s.nonfatalMode /\ s.err = "none" => t.err = "die"

\* A command run by the script itself.
LEMMA ExecResult ==
    ASSUME NEW s, Good(s), Destinations(s) = told, NEW c \in Menu[phase], phase \in Phases
    PROVE  Result(s, execHandler(s, c), c)
  <1>1. /\ c.cmd \in KnownCommands /\ AllPaths(c.args)
        /\ c.cmd \in {"cd", "grep", "cp", "mv"} => c.args # <<>>
    BY Calls
  <1>2. CASE c.cmd \in {"newins", "newdoc", "newman"} /\ c.args[1] = Stdin
    <2> DEFINE t == NewinsFromStdin(s, c.cmd, Last(c.args[2]))
    <2>1. execHandler(s, c) = t
      BY <1>2 DEF execHandler
    <2>2. Kept(s, t)
      BY <1>2, StdinKeeps
    <2>3. Asked(c) = told /\ c.cmd # "die"
      BY <1>2 DEF Asked
    <2> HIDE DEF t
    <2> QED BY <2>1, <2>2, <2>3 DEF Result, Kept, Same, Destinations
  <1>3. CASE c.cmd = "cd"
    <2> DEFINE dir == resolvePath(s, c.args[1])
               t == [s EXCEPT !.cwd = dir]
    <2>1. execHandler(s, c) \in {t, False(s)}
      BY <1>3 DEF execHandler
    <2>2. IsSeq(dir)
      BY <1>1, <1>3, ArgSeq, PathSeq DEF Good
    <2> HIDE DEF dir
    <2>3. Kept(s, t)
      BY <2>2, SetCwd
    <2>4. Asked(c) = told /\ c.cmd # "die"
      BY <1>3 DEF Asked
    <2> HIDE DEF t
    <2>5. Kept(s, execHandler(s, c))
      BY <2>1, <2>3, FailKeeps
    <2> QED BY <2>4, <2>5 DEF Result, Kept, Same, Destinations
  <1>4. CASE ~(c.cmd \in {"newins", "newdoc", "newman"} /\ c.args[1] = Stdin) /\ c.cmd # "cd"
    <2> DEFINE t == Command(s, c)
    <2>1. execHandler(s, c) = t
      BY <1>4 DEF execHandler
    <2>2. /\ Good(t) /\ t.nonfatalMode = s.nonfatalMode /\ Destinations(t) = Asked(c)
          /\ c.cmd = "die" => t = Die(s)
      BY <1>1, <1>4, CommandSets
    <2> HIDE DEF t
    <2> QED BY <2>1, <2>2, DieKeeps DEF Result
  <1> QED BY <1>2, <1>3, <1>4

\* A command run by nonfatal: the mode is off again, and what it leaves is
\* no error but a status, except that there is no nonfatal before EAPI 4.
LEMMA NonfatalResult ==
    ASSUME NEW s, Good(s), s.nonfatalMode = FALSE, Destinations(s) = told, NEW c \in Menu[phase],
           phase \in Phases, eapi \in 0..8
    PROVE  LET t == Nonfatal(s, c) IN
           /\ Good(t) /\ t.nonfatalMode = FALSE
           /\ Destinations(t) = IF eapi >= 4 THEN Asked(c) ELSE told
  <1>1. /\ c.cmd \in KnownCommands /\ AllPaths(c.args)
        /\ c.cmd \in {"cd", "grep", "cp", "mv"} => c.args # <<>>
    BY Calls
  <1>2. CASE eapi < 4
    <2>1. Nonfatal(s, c) = Fail(s) /\ ~(eapi >= 4)
      BY <1>2 DEF Nonfatal
    <2>2. Kept(s, Fail(s))
      BY FailKeeps
    <2> QED BY <2>1, <2>2 DEF Kept, Same, Destinations
  <1>3. CASE ~(eapi < 4)
    <2> DEFINE u == [s EXCEPT !.nonfatalMode = TRUE]
               r == dispatchCommand(u, c)
    <2>1. /\ u = [x \in Fields |-> u[x]] /\ \A x \in Fields : x # "nonfatalMode" => u[x] = s[x]
      BY Update DEF Good, Fields
    <2>2. Good(u) /\ Destinations(u) = told
      <3> HIDE DEF u
      <3> QED BY <2>1 DEF Good, Fields, Destinations
    <2> HIDE DEF u
    <2>3. Good(r) /\ Destinations(r) = Asked(c)
      <3>1. CASE c.cmd = "cd"
        <4>1. r = False(u) /\ Asked(c) = told
          BY <3>1 DEF dispatchCommand, Asked
        <4>2. Kept(u, False(u))
          BY <2>2, FailKeeps
        <4> QED BY <2>2, <4>1, <4>2 DEF Kept, Same, Destinations
      <3>2. CASE c.cmd # "cd"
        <4>1. r = Command(u, c)
          BY <3>2 DEF dispatchCommand
        <4> HIDE DEF r
        <4> QED BY <1>1, <2>2, <3>2, <4>1, CommandSets
      <3> QED BY <3>1, <3>2
    <2>4. Nonfatal(s, c) = AfterNonfatal(r) /\ eapi >= 4
      BY <1>3 DEF Nonfatal, u
    <2> HIDE DEF r
    <2> DEFINE t == AfterNonfatal(r)
    <2>5. /\ t = [x \in Fields |-> t[x]] /\ t["nonfatalMode"] = FALSE
          /\ t["err"] \in {r.err, "false"}
          /\ \A x \in Fields \ {"nonfatalMode", "lastExitStatus", "err"} : t[x] = r[x]
      BY <2>3 DEF AfterNonfatal, Good, Fields
    <2> HIDE DEF t
    <2>6. Good(t) /\ t.nonfatalMode = FALSE /\ Destinations(t) = Destinations(r)
      BY <2>3, <2>5 DEF Good, Fields, Destinations
    <2> QED BY <2>3, <2>4, <2>6 DEF t
  <1> QED BY <1>2, <1>3

\* What follows a command: the invariant again, and the phase has failed if
\* it had to.
LEMMA DoneKeeps ==
    ASSUME PhaseInv, NEW s, Good(s), s.nonfatalMode = FALSE, pc = "running", NEW c, NEW plain \in BOOLEAN,
           NEW orDie \in BOOLEAN, Destinations(s) = IF plain \/ eapi >= 4 THEN Asked(c) ELSE told,
           plain /\ c.cmd = "die" => s.err = "die",
           Done(c, s, plain, orDie)
    PROVE  PhaseInv'
  <1> DEFINE u == [s EXCEPT !.err = "none"]
             end == IF orDie /\ s.err = "false" THEN Die(u) ELSE s
             e == [end EXCEPT !.err = "none"]
             t == [e EXCEPT !.left = 0]
  <1>1. Kept(s, u) /\ u.err = "none"
    BY SetErr
  <1>2. /\ st' = [end EXCEPT !.err = "none", !.left = 0] /\ pc' = IF end.err = "die" THEN "failed" ELSE "running"
        /\ told' = IF plain \/ eapi >= 4 THEN Asked(c) ELSE told
        /\ fatal' = (fatal \/ (plain /\ c.cmd = "die") \/ (orDie /\ ~Ok(s)))
        /\ phase' = phase /\ eapi' = eapi
    BY DEF Done
  <1> HIDE DEF u
  <1>3. Kept(u, Die(u)) /\ Die(u).err = "die"
    BY <1>1, DieKeeps DEF Kept, Same
  <1>4. Kept(s, end) /\ (s.err = "die" \/ (orDie /\ s.err # "none") => end.err = "die")
    BY <1>1, <1>3, KeptTwice DEF Good
  <1>5. st' = t
    BY <1>2
  <1> HIDE DEF end
  <1>6. Kept(s, e) /\ e.err = "none"
    BY <1>4, SetErr, KeptTwice DEF Kept
  <1> HIDE DEF e
  <1>7. Kept(s, t) /\ t.err = "none"
    BY <1>6, SetLeft, KeptTwice DEF Kept
  <1> HIDE DEF t
  <1>8. Good(st') /\ st'.err = "none" /\ st'.nonfatalMode = FALSE
    BY <1>5, <1>7 DEF Kept, Same
  <1>9. DestinationsAsTold'
    BY <1>2, <1>5, <1>7 DEF DestinationsAsTold, Destinations, Kept, Same
  <1>10. DieEndsPhase'
    <2>1. fatal = FALSE \/ ~fatal
      BY DEF PhaseInv, DieEndsPhase
    <2>2. fatal' => s.err = "die" \/ (orDie /\ s.err # "none")
      BY <1>2 DEF PhaseInv, DieEndsPhase, Ok
    <2> QED BY <1>2, <1>4, <2>2 DEF DieEndsPhase
  <1> QED BY <1>2, <1>8, <1>9, <1>10 DEF PhaseInv

\* A phase begins with the destinations of a new Helpers value.
LEMMA PhaseInvInit == Init => PhaseInv
  <1> SUFFICES ASSUME Init PROVE PhaseInv
    OBVIOUS
  <1> DEFINE base == [fs |-> Tree, err |-> "none", left |-> 0,
                      cwd |-> IF phase = "unpack" THEN <<"W">> ELSE <<"S">>]
  <1>1. /\ st = Over(base, NewHelpers) /\ told = Destinations(NewHelpers) /\ fatal = FALSE
        /\ phase \in Phases /\ eapi \in EAPIs
    BY DEF Init
  <1>2. /\ DOMAIN base = {"fs", "err", "left", "cwd"}
        /\ DOMAIN NewHelpers = {"insDestTree", "exeDestTree", "docDestTree", "destTree", "libDir", "insOpts",
                                "exeOpts", "dirOpts", "nonfatalMode", "lastExitStatus"}
    BY DEF NewHelpers
  <1>3. /\ base.fs = Tree /\ base.err = "none" /\ base.cwd \in {<<"W">>, <<"S">>}
    OBVIOUS
  <1> HIDE DEF base
  <1>4. st = [x \in Fields |-> IF x \in DOMAIN base THEN base[x] ELSE NewHelpers[x]]
    <2>1. DOMAIN base \cup DOMAIN NewHelpers = Fields
      BY <1>2 DEF Fields
    <2> QED BY <1>1, <2>1 DEF Over
  <1>5. /\ st = [x \in Fields |-> st[x]] /\ st.fs = Tree /\ st.err = "none" /\ st.cwd \in {<<"W">>, <<"S">>}
        /\ st.insDestTree = NewHelpers.insDestTree /\ st.exeDestTree = NewHelpers.exeDestTree
        /\ st.docDestTree = NewHelpers.docDestTree /\ st.destTree = NewHelpers.destTree
        /\ st.nonfatalMode = NewHelpers.nonfatalMode
    BY <1>2, <1>3, <1>4 DEF Fields
  <1>6. /\ NewHelpers.insDestTree = <<"usr">> /\ NewHelpers.exeDestTree = <<>> /\ NewHelpers.docDestTree = <<>>
        /\ NewHelpers.destTree = <<"usr">> /\ NewHelpers.nonfatalMode = FALSE
    BY DEF NewHelpers
  <1>7. IsSeq(<<"usr">>) /\ IsSeq(<<>>) /\ IsSeq(<<"W">>) /\ IsSeq(<<"S">>)
    BY SeqLiterals
  <1>8. Good(st)
    <2>1. IsTree(st.fs) /\ IsSeq(st.cwd)
      BY <1>5, <1>7, TreeAssumption
    <2>2. IsSeq(st.insDestTree) /\ IsSeq(st.exeDestTree) /\ IsSeq(st.docDestTree) /\ IsSeq(st.destTree)
      BY <1>5, <1>6, <1>7
    <2> QED BY <1>5, <2>1, <2>2 DEF Good
  <1> QED BY <1>1, <1>5, <1>6, <1>8 DEF PhaseInv, DestinationsAsTold, DieEndsPhase, Destinations

\* Every step keeps the invariant.
LEMMA PhaseInvNext == PhaseInv /\ [Next]_vars => PhaseInv'
  <1> SUFFICES ASSUME PhaseInv, [Next]_vars PROVE PhaseInv'
    OBVIOUS
  <1>1. /\ Good(st) /\ st.err = "none" /\ st.nonfatalMode = FALSE /\ Destinations(st) = told
        /\ phase \in Phases /\ eapi \in 0..8
    BY Assumption DEF PhaseInv, DestinationsAsTold
  <1>2. ASSUME NEW n PROVE /\ Good(WithFault(n)) /\ WithFault(n).err = "none" /\ WithFault(n).nonfatalMode = FALSE
                           /\ Destinations(WithFault(n)) = told
    BY <1>1, SetLeft DEF WithFault, Kept, Same, Destinations
  <1>3. CASE RunCommand
    <2>1. PICK c \in Menu[phase], n \in Writes :
            /\ pc = "running"
            /\ \E orDie \in BOOLEAN : Done(c, execHandler(WithFault(n), c), TRUE, orDie)
      BY <1>3 DEF RunCommand, Call
    <2> DEFINE s == execHandler(WithFault(n), c)
    <2>2. Result(WithFault(n), s, c)
      BY <1>1, <1>2, ExecResult
    <2>3. WithFault(n).nonfatalMode = FALSE /\ WithFault(n).err = "none"
      BY <1>2
    <2>4. PICK orDie \in BOOLEAN : Done(c, s, TRUE, orDie)
      BY <2>1
    <2> HIDE DEF s
    <2>5. /\ Good(s) /\ s.nonfatalMode = FALSE /\ Destinations(s) = Asked(c)
          /\ c.cmd = "die" => s.err = "die"
      BY <2>2, <2>3 DEF Result
    <2> QED BY <2>1, <2>4, <2>5, DoneKeeps
  <1>4. CASE RunNonfatal
    <2>1. PICK c \in Menu[phase], n \in Writes :
            /\ pc = "running"
            /\ \E orDie \in BOOLEAN : Done(c, Nonfatal(WithFault(n), c), FALSE, orDie)
      BY <1>4 DEF RunNonfatal, Call
    <2> DEFINE s == Nonfatal(WithFault(n), c)
    <2>2. /\ Good(s) /\ s.nonfatalMode = FALSE
          /\ Destinations(s) = IF eapi >= 4 THEN Asked(c) ELSE told
      BY <1>1, <1>2, NonfatalResult
    <2>3. PICK orDie \in BOOLEAN : Done(c, s, FALSE, orDie)
      BY <2>1
    <2> HIDE DEF s
    <2> QED BY <2>1, <2>2, <2>3, DoneKeeps
  <1>5. CASE EndPhase
    BY <1>5 DEF EndPhase, PhaseInv, DestinationsAsTold, DieEndsPhase
  <1>6. CASE UNCHANGED vars
    BY <1>6 DEF vars, PhaseInv, DestinationsAsTold, DieEndsPhase
  <1> QED BY <1>3, <1>4, <1>5, <1>6 DEF Next

\* Whatever was called before, with or without success, under nonfatal or
\* not, and whichever writes failed, the install helpers go where the script
\* last said (insinto, exeinto, docinto and into of helpers_install.go and
\* helpers_docs.go, doconfd, doenvd and einstalldocs giving back what they
\* borrow).
THEOREM HelpersGoWhereTold == Spec => []DestinationsAsTold
  <1>1. PhaseInv => DestinationsAsTold
    BY DEF PhaseInv
  <1> QED BY <1>1, PhaseInvInit, PhaseInvNext, PTL DEF Spec

\* A die outside nonfatal, and a failed command with || die, ends the phase
\* as failed: nonfatal always leaves its mode, so die is never taken for a
\* status (nonfatal and die of helpers_error.go).
THEOREM DieIsFinal == Spec => []DieEndsPhase
  <1>1. PhaseInv => DieEndsPhase
    BY DEF PhaseInv
  <1> QED BY <1>1, PhaseInvInit, PhaseInvNext, PTL DEF Spec
=============================================================================
