--------------------------- MODULE ResolverProofs ---------------------------
(***************************************************************************)
(* What Resolve answers, for every tree, VDB, option set and request, and  *)
(* for whichever model the SAT solver returns.                             *)
(***************************************************************************)
EXTENDS Resolver, FiniteSetTheorems, WellFoundedInduction, TLAPS

-----------------------------------------------------------------------------
(* Operators *)

\* Of any set of packages one has the highest version.
LEMMA HighestIn ==
    ASSUME NEW S, S \subseteq Pkgs, S # {}
    PROVE  Highest(S) \in S
<1> DEFINE Above(p) == {q \in S : VerOf[q] > VerOf[p]}
           f == [p \in S |-> Cardinality(Above(p))]
<1>1. IsFiniteSet(S) /\ \A p \in S : VerOf[p] \in Nat
  BY PkgsAssumption, FS_Subset
<1>2. \A p \in S : IsFiniteSet(Above(p))
  BY <1>1, FS_Subset
<1>3. f \in [S -> Nat]
  BY <1>2, FS_CardinalityType
<1> HIDE DEF f
<1>4. PICK p \in S : \A q \in S : f[p] <= f[q]
  <2> DEFINE R == OpToRel(<, Nat)
             I == {f[p] : p \in S}
  <2>1. IsWellFoundedOn(R, Nat)
    BY NatLessThanWellFounded
  <2>2. \A m, n \in Nat : m < n => <<m, n>> \in R
    BY DEF OpToRel
  <2>3. I \subseteq Nat /\ I # {} /\ \A p \in S : f[p] \in I
    BY <1>3
  <2>4. \A n \in I : \E p \in S : f[p] = n
    OBVIOUS
  <2> HIDE DEF R, I
  <2>5. PICK n \in I : \A m \in I : ~(<<m, n>> \in R)
    <3>1. I \subseteq Nat /\ I # {}
      BY <2>3
    <3> QED BY <2>1, <3>1, WFMin, Zenon
  <2>6. PICK p \in S : f[p] = n
    BY <2>4
  <2>7. \A q \in S : f[q] \in Nat /\ f[p] \in Nat /\ ~(f[q] < f[p])
    BY <1>3, <2>2, <2>3, <2>5, <2>6
  <2> QED BY <2>7
<1>5. ASSUME NEW q \in S, VerOf[q] > VerOf[p] PROVE FALSE
  <2>1. Above(q) \subseteq Above(p) /\ q \in Above(p) /\ q \notin Above(q)
    BY <1>1, <1>5
  <2> HIDE DEF Above
  <2>2. Cardinality(Above(q)) < Cardinality(Above(p))
    BY <1>2, <2>1, FS_Subset, FS_CardinalityType
  <2>3. f[q] < f[p]
    BY <2>2 DEF f
  <2> QED BY <1>3, <1>4, <2>3
<1>6. \A q \in S : VerOf[q] <= VerOf[p]
  BY <1>1, <1>5
<1> QED BY <1>4, <1>6 DEF Highest

\* A cheapest model is a model.
LEMMA CheapestIsModel ==
    ASSUME NEW M
    PROVE  Cheapest(M) \subseteq M
BY DEF Cheapest

\* What the fields of an instance are.
LEMMA InstanceType ==
    ASSUME inst \in Instances
    PROVE  /\ inst.deps \in [Pkgs -> SUBSET Groups] /\ inst.blocks \in [Pkgs -> SUBSET Atoms]
           /\ inst.repo \subseteq Pkgs /\ inst.installed \subseteq Pkgs
           /\ inst.request \in Seq(Requests)
BY InstancesAssumption

\* What the encoding is computed from does not change once it is computed.
LEMMA SameEncoding ==
    ASSUME UNCHANGED <<inst, roots, loaded>>
    PROVE  Registered' = Registered /\ AllClauses' = AllClauses
BY DEF Registered, AllClauses, RootClauses, SlotClauses, PackageClauses, RootVars, Implication, Conflicts, 
  Providers, Provides, Flag, GroupsOf, SkipAllDeps, InstalledSame, RootNames, Installed, Deps, opts, Acceptable, Matches, UseOK

LEMMA SameModels ==
    ASSUME UNCHANGED <<inst, roots, loaded, clauses>>
    PROVE  Models(clauses)' = Models(clauses) /\ Models(Forced)' = Models(Forced)
<1>1. Registered' = Registered
  BY SameEncoding, Zenon
<1>2. Forced' = Forced
  BY <1>1 DEF Forced, Preferred
<1> QED BY <1>1, <1>2 DEF Models, Holds

LEMMA SamePlan ==
    ASSUME UNCHANGED <<inst, roots, loaded, clauses>>, NEW s
    PROVE  PlanOf(s)' = PlanOf(s)
<1>1. Registered' = Registered
  BY SameEncoding, Zenon
<1>2. Removed(s)' = Removed(s)
  BY <1>1 DEF Removed, Installed, opts
<1>3. \A p \in s : determineAction(p)' = determineAction(p)
  BY DEF determineAction, RootNames, opts
<1> QED BY <1>2, <1>3 DEF PlanOf

LEMMA SameVisits ==
    ASSUME UNCHANGED <<inst, roots>>
    PROVE  /\ RootNames' = RootNames
           /\ \A p : Acceptable(p)' = Acceptable(p)
           /\ \A p : Mentioned(p)' = Mentioned(p)
           /\ \A p : Followed(p)' = Followed(p)
BY DEF RootNames, Acceptable, Mentioned, Followed, AtomsOf, GroupsOf, Deps, SkipAllDeps, InstalledSame,
       SatisfiedByInstalled, Matches, Installed, opts

\* The forced model is a model: phase 1 only adds clauses.
LEMMA ForcedIsModel == Models(Forced) \subseteq Models(clauses)
BY DEF Models, Forced

-----------------------------------------------------------------------------
(* Types *)

LEMMA AtomsOfType ==
    ASSUME inst \in Instances, NEW p \in Pkgs
    PROVE  AtomsOf(p) \subseteq Atoms
<1>1. Deps(p) \subseteq Groups
  BY InstanceType DEF Deps
<1>2. GroupsOf(p) \subseteq Groups
  BY <1>1 DEF GroupsOf
<1>3. \A g \in Groups : Range(g.alts) \subseteq Atoms
  BY DEF Groups, Range
<1> QED BY <1>2, <1>3 DEF AtomsOf

LEMMA MentionedType ==
    ASSUME inst \in Instances, NEW p \in Pkgs
    PROVE  Mentioned(p) \subseteq Names
<1>1. AtomsOf(p) \subseteq Atoms /\ inst.blocks[p] \subseteq Atoms
  BY AtomsOfType, InstanceType
<1> QED BY <1>1, PkgsAssumption DEF Mentioned, Atoms

\* Every clause is one of the five kinds.
LEMMA ClauseKinds ==
    ASSUME NEW c \in AllClauses
    PROVE  \/ \E x \in roots : c = [not |-> {}, some |-> RootVars(x), src |-> "root"]
           \/ \E s \in SUBSET Registered :
                 /\ c = [not |-> s, some |-> {}, src |-> "at-most-one"]
                 /\ Cardinality(s) = 2
                 /\ \A p, q \in s : SameSlot(p, q)
           \/ \E p \in Registered : \E g \in GroupsOf(p) :
                 c = [not |-> {p}, some |-> Providers(g),
                      src |-> IF Providers(g) = {} THEN "prohibit" ELSE "implication"]
           \/ \E p \in Registered : \E q \in Registered \ {p} :
                 /\ c = [not |-> {p, q}, some |-> {}, src |-> "conflict"]
                 /\ \E a \in inst.blocks[p] : Matches(a, q)
<1>1. CASE c \in RootClauses
  BY <1>1, Zenon DEF RootClauses
<1>2. CASE c \in SlotClauses
  BY <1>2, Zenon DEF SlotClauses, SameSlot
<1>3. ASSUME NEW p \in Registered, c \in PackageClauses(p)
      PROVE  \/ \E g \in GroupsOf(p) :
                  c = [not |-> {p}, some |-> Providers(g),
                       src |-> IF Providers(g) = {} THEN "prohibit" ELSE "implication"]
             \/ \E q \in Registered \ {p} :
                  /\ c = [not |-> {p, q}, some |-> {}, src |-> "conflict"]
                  /\ \E a \in inst.blocks[p] : Matches(a, q)
  <2>1. CASE c \in Conflicts(p)
    BY <2>1, Zenon DEF Conflicts
  <2>2. CASE \E g \in GroupsOf(p) : c \in Implication(p, g)
    BY <2>2, Zenon DEF Implication
  <2>3. c \in Conflicts(p) \/ \E g \in GroupsOf(p) : c \in Implication(p, g)
    BY <1>3, SMT DEF PackageClauses
  <2> QED BY <2>1, <2>2, <2>3, Zenon
<1> QED BY <1>1, <1>2, <1>3, Zenon DEF AllClauses

LEMMA ClausesType ==
    AllClauses \subseteq [not : SUBSET Pkgs, some : SUBSET Pkgs,
                          src : {"root", "at-most-one", "implication", "prohibit", "conflict"}]
<1>1. Registered \subseteq Pkgs
  BY DEF Registered
<1>2. \A x : RootVars(x) \subseteq Pkgs
  BY <1>1 DEF RootVars
<1>3. \A g : Providers(g) \subseteq Pkgs
  BY <1>1 DEF Providers
<1> SUFFICES ASSUME NEW c \in AllClauses
             PROVE  c \in [not : SUBSET Pkgs, some : SUBSET Pkgs,
                           src : {"root", "at-most-one", "implication", "prohibit", "conflict"}]
    OBVIOUS
<1>4. CASE \E x \in roots : c = [not |-> {}, some |-> RootVars(x), src |-> "root"]
  BY <1>2, <1>4
<1>5. CASE \E s \in SUBSET Registered : c = [not |-> s, some |-> {}, src |-> "at-most-one"]
  BY <1>1, <1>5
<1>6. CASE \E p \in Registered : \E g \in GroupsOf(p) :
              c = [not |-> {p}, some |-> Providers(g),
                   src |-> IF Providers(g) = {} THEN "prohibit" ELSE "implication"]
  BY <1>1, <1>3, <1>6
<1>7. CASE \E p, q \in Registered : c = [not |-> {p, q}, some |-> {}, src |-> "conflict"]
  BY <1>1, <1>7
<1> QED BY <1>4, <1>5, <1>6, <1>7, ClauseKinds, Zenon

LEMMA PlanType ==
    ASSUME NEW s, s \subseteq Registered
    PROVE  PlanOf(s) \subseteq [pkg : Pkgs, action : {"install", "upgrade", "downgrade", "reinstall",
                                                      "keep", "remove", "newslot"}]
<1>1. s \subseteq Pkgs /\ Removed(s) \subseteq Pkgs
  BY DEF Registered, Removed
<1>2. \A p : determineAction(p) \in {"install", "upgrade", "downgrade", "reinstall", "keep", "newslot"}
  BY DEF determineAction
<1> QED BY <1>1, <1>2 DEF PlanOf

-----------------------------------------------------------------------------
(* What a model of the clauses is *)

LEMMA ImplicationEncoded ==
    ASSUME NEW p \in Registered, NEW g \in GroupsOf(p)
    PROVE  \E c \in AllClauses : c.not = {p} /\ c.some = Providers(g)
<1> DEFINE c == [not |-> {p}, some |-> Providers(g),
                 src |-> IF Providers(g) = {} THEN "prohibit" ELSE "implication"]
<1>1. c \in Implication(p, g)
  BY DEF Implication
<1>2. c.not = {p} /\ c.some = Providers(g)
  OBVIOUS
<1> HIDE DEF c
<1>3. c \in PackageClauses(p)
  BY <1>1 DEF PackageClauses
<1>4. c \in AllClauses
  BY <1>3 DEF AllClauses
<1> QED BY <1>2, <1>4

LEMMA ConflictEncoded ==
    ASSUME NEW p \in Registered, ~SkipAllDeps(p), NEW q \in Registered \ {p},
           NEW a \in inst.blocks[p], Matches(a, q)
    PROVE  [not |-> {p, q}, some |-> {}, src |-> "conflict"] \in AllClauses
<1> DEFINE c == [not |-> {p, q}, some |-> {}, src |-> "conflict"]
<1>1. c \in Conflicts(p)
  BY DEF Conflicts
<1> HIDE DEF c
<1>2. c \in PackageClauses(p)
  BY <1>1 DEF PackageClauses
<1>3. c \in AllClauses
  BY <1>2 DEF AllClauses
<1> QED BY <1>3 DEF c

\* AddImplicationConstraint and its like: a selected package has a selected
\* provider for each of its groups.
LEMMA ModelMeets ==
    ASSUME NEW s \in Models(AllClauses), NEW p \in s, NEW g \in GroupsOf(p)
    PROVE  \E q \in s : q \in Providers(g)
<1>1. p \in Registered
  BY DEF Models
<1>2. PICK c \in AllClauses : c.not = {p} /\ c.some = Providers(g)
  BY <1>1, ImplicationEncoded
<1> QED BY <1>2 DEF Models, Holds

\* AddBlockerConflict: a selected package and one it blocks exclude each other.
LEMMA ModelApart ==
    ASSUME NEW s \in Models(AllClauses), NEW p \in s, ~SkipAllDeps(p), NEW q \in s \ {p},
           NEW a \in inst.blocks[p], Matches(a, q)
    PROVE  FALSE
<1> DEFINE c == [not |-> {p, q}, some |-> {}, src |-> "conflict"]
<1>1. p \in Registered /\ q \in Registered
  BY DEF Models
<1>2. c \in AllClauses
  BY <1>1, ConflictEncoded
<1>3. c.not \subseteq s /\ c.some = {}
  OBVIOUS
<1> HIDE DEF c
<1> QED BY <1>2, <1>3 DEF Models, Holds

\* addRootConstraints: a root with a variable has a selected version.
LEMMA ModelRoots ==
    ASSUME NEW s \in Models(AllClauses), NEW x \in roots, RootVars(x) # {}
    PROVE  \E p \in s : p \in RootVars(x)
<1> DEFINE c == [not |-> {}, some |-> RootVars(x), src |-> "root"]
<1>1. c \in RootClauses
  BY DEF RootClauses
<1>2. c.not = {} /\ c.some = RootVars(x)
  OBVIOUS
<1> HIDE DEF c
<1>3. c \in AllClauses
  BY <1>1 DEF AllClauses
<1> QED BY <1>2, <1>3 DEF Models, Holds

\* AddAtMostOnePerSlot: a slot has one selected package.
LEMMA ModelSlots ==
    ASSUME NEW s \in Models(AllClauses), NEW p \in s, NEW q \in s, SameSlot(p, q)
    PROVE  p = q
<1> SUFFICES ASSUME p # q PROVE FALSE
    OBVIOUS
<1> DEFINE c == [not |-> {p, q}, some |-> {}, src |-> "at-most-one"]
<1>1. {p, q} \in SUBSET Registered
  BY DEF Models
<1>2. Cardinality({p, q}) = 2
  <2>1. IsFiniteSet({q}) /\ Cardinality({q}) = 1 /\ p \notin {q}
    BY FS_Singleton
  <2>2. Cardinality({q} \cup {p}) = Cardinality({q}) + 1
    BY <2>1, FS_AddElement, Zenon
  <2>3. {q} \cup {p} = {p, q}
    OBVIOUS
  <2> QED BY <2>1, <2>2, <2>3
<1>3. \A u, v \in {p, q} : NameOf[u] = NameOf[v] /\ SlotOf[u] = SlotOf[v]
  BY DEF SameSlot
<1>4. c \in SlotClauses
  BY <1>1, <1>2, <1>3 DEF SlotClauses
<1>5. c.not \subseteq s /\ c.some = {}
  OBVIOUS
<1> HIDE DEF c
<1>6. c \in AllClauses
  BY <1>4 DEF AllClauses
<1> QED BY <1>5, <1>6 DEF Models, Holds

-----------------------------------------------------------------------------
(* The inductive invariant *)

\* What loadPackageFromAtom finds answers the request.
LEMMA LoadedMatches ==
    ASSUME inst \in Instances, NEW r \in Requests, loadPackageFromAtom(r).status = "ok"
    PROVE  loadPackageFromAtom(r).pkg \in Pkgs /\ Matches(r, loadPackageFromAtom(r).pkg)
<1> DEFINE found == {p \in inst.repo : Matches(r, p)}
           fit == IF r.exact THEN found ELSE {p \in found : Acceptable(p)}
<1>1. found \subseteq Pkgs /\ fit \subseteq found
  BY InstanceType
<1>2. fit # {} /\ loadPackageFromAtom(r).pkg = Highest(fit)
  BY DEF loadPackageFromAtom
<1> HIDE DEF fit
<1>3. Highest(fit) \in fit
  BY <1>1, <1>2, HighestIn
<1> QED BY <1>1, <1>2, <1>3

LEMMA LoadRootStep == IndInv /\ LoadRoot => IndInv'
<1> SUFFICES ASSUME IndInv, LoadRoot PROVE IndInv'
    OBVIOUS
<1>1. /\ pc = "load" /\ pc' \in {"load", "failed"} /\ todo # <<>> /\ todo' = Tail(todo)
      /\ UNCHANGED <<inst, loaded, explored, clauses, dead, plan>>
  BY DEF LoadRoot
<1>2. todo \in Seq(Requests) /\ explored = {} /\ dead = {} /\ inst \in Instances /\ TypeOK
  BY <1>1 DEF IndInv, RootsMatch, Visiting, Answered
<1>3. Head(todo) \in Requests /\ Tail(todo) \in Seq(Requests)
  BY <1>1, <1>2
<1> DEFINE l == loadPackageFromAtom(Head(todo))
<1>4. \A x \in roots' : x \in roots \/ (l.status = "ok" /\ x = [pkg |-> l.pkg, req |-> Head(todo)])
  BY DEF LoadRoot
<1>5. l.status = "ok" => l.pkg \in Pkgs /\ Matches(Head(todo), l.pkg)
  BY <1>2, <1>3, LoadedMatches
<1> HIDE DEF l
<1>6. TypeOK'
  BY <1>1, <1>2, <1>3, <1>4, <1>5 DEF TypeOK
<1>7. RootsMatch'
  <2>1. \A x \in roots : Matches(x.req, x.pkg)
    BY DEF IndInv, RootsMatch
  <2>2. \A x \in roots' : Matches(x.req, x.pkg)
    BY <1>4, <1>5, <2>1
  <2> QED BY <1>1, <1>3, <2>2 DEF RootsMatch, Matches
<1>8. Visiting' /\ Encoded' /\ Answered' /\ DeadIsImpossible'
  BY <1>1, <1>2 DEF Visiting, Encoded, Answered, DeadIsImpossible
<1> QED BY <1>1, <1>2, <1>6, <1>7, <1>8 DEF IndInv

LEMMA StartCollectStep == IndInv /\ StartCollect => IndInv'
<1> SUFFICES ASSUME IndInv, StartCollect PROVE IndInv'
    OBVIOUS
<1>1. /\ pc = "load" /\ pc' = "collect" /\ loaded' = RootNames
      /\ todo' = {p \in Pkgs : Acceptable(p) /\ NameOf[p] \in RootNames}
      /\ UNCHANGED <<inst, roots, explored, clauses, dead, plan>>
  BY DEF StartCollect
<1>2. explored = {} /\ dead = {} /\ inst \in Instances /\ TypeOK
  BY <1>1 DEF IndInv, Visiting, Answered
<1>3. RootNames \subseteq Names
  BY <1>2, PkgsAssumption DEF RootNames, TypeOK
<1>4. TypeOK'
  BY <1>1, <1>2, <1>3 DEF TypeOK
<1>5. RootsMatch'
  BY <1>1 DEF IndInv, RootsMatch, Matches
<1>6. RootNames' = RootNames /\ \A p : Acceptable(p)' = Acceptable(p)
  BY <1>1, SameVisits, Zenon
<1>7. Visiting'
  BY <1>1, <1>2, <1>6 DEF Visiting
<1>8. Encoded' /\ Answered' /\ DeadIsImpossible'
  BY <1>1, <1>2 DEF Encoded, Answered, DeadIsImpossible
<1> QED BY <1>1, <1>2, <1>4, <1>5, <1>7, <1>8 DEF IndInv

LEMMA CollectStep ==
    ASSUME NEW p \in Pkgs
    PROVE  IndInv /\ CollectDependencies(p) => IndInv'
<1> SUFFICES ASSUME IndInv, CollectDependencies(p) PROVE IndInv'
    OBVIOUS
<1> DEFINE Due == {q \in Pkgs : Acceptable(q) /\ \E a \in Followed(p) : a.name = NameOf[q]}
<1>1. /\ pc = "collect" /\ pc' = "collect" /\ p \in todo /\ explored' = explored \cup {p}
      /\ loaded' = loaded \cup Mentioned(p) /\ todo' = (todo \cup Due) \ explored'
      /\ UNCHANGED <<inst, roots, clauses, dead, plan>>
  BY DEF CollectDependencies
<1>2. dead = {} /\ inst \in Instances /\ TypeOK
  BY <1>1 DEF IndInv, Answered
<1>3. Mentioned(p) \subseteq Names
  BY <1>2, MentionedType
<1>4. TypeOK'
  BY <1>1, <1>2, <1>3 DEF TypeOK
<1>5. RootsMatch'
  BY <1>1 DEF IndInv, RootsMatch, Matches
<1>6. /\ RootNames' = RootNames /\ \A q : Acceptable(q)' = Acceptable(q)
      /\ \A q : Mentioned(q)' = Mentioned(q)
      /\ \A q : Followed(q)' = Followed(q)
  BY <1>1, SameVisits, Zenon
<1>7. Visiting'
  <2>1. \A a \in Followed(p) : a.name \in Mentioned(p)
    BY DEF Followed, Mentioned
  <2>2. /\ todo \cup explored \subseteq {q \in Pkgs : Acceptable(q) /\ NameOf[q] \in loaded}
        /\ RootNames \subseteq loaded
        /\ \A q \in Pkgs : Acceptable(q) /\ NameOf[q] \in RootNames => q \in explored \cup todo
        /\ \A r \in explored :
              /\ Mentioned(r) \subseteq loaded
              /\ \A q \in Pkgs : \A a \in Followed(r) :
                    Acceptable(q) /\ a.name = NameOf[q] => q \in explored \cup todo
    BY <1>1 DEF IndInv, Visiting
  <2>3. todo' \cup explored' \subseteq todo \cup explored \cup Due
    BY <1>1
  <2>4. explored \cup todo \cup Due \subseteq explored' \cup todo'
    BY <1>1
  <2>5. Due \subseteq {q \in Pkgs : Acceptable(q) /\ NameOf[q] \in Mentioned(p)}
    BY <2>1
  <2>6. \A q \in Pkgs : \A a \in Followed(p) : Acceptable(q) /\ a.name = NameOf[q] => q \in Due
    OBVIOUS
  <2> HIDE DEF Due
  <2>7. todo' \cup explored' \subseteq {q \in Pkgs : Acceptable(q)' /\ NameOf[q] \in loaded'}
    BY <1>1, <1>6, <2>2, <2>3, <2>5
  <2>8. \A q \in Pkgs : Acceptable(q)' /\ NameOf[q] \in RootNames' => q \in explored' \cup todo'
    BY <1>6, <2>2, <2>4
  <2>9. ASSUME NEW r \in explored'
        PROVE  /\ Mentioned(r)' \subseteq loaded'
               /\ \A q \in Pkgs : \A a \in Followed(r)' :
                     Acceptable(q)' /\ a.name = NameOf[q] => q \in explored' \cup todo'
    <3>1. CASE r = p
      BY <1>1, <1>6, <2>4, <2>6, <3>1
    <3>2. CASE r \in explored
      BY <1>1, <1>6, <2>2, <2>4, <3>2
    <3> QED BY <1>1, <3>1, <3>2
  <2> QED BY <1>1, <1>6, <2>2, <2>7, <2>8, <2>9 DEF Visiting
<1>8. Encoded' /\ Answered' /\ DeadIsImpossible'
  BY <1>1, <1>2 DEF Encoded, Answered, DeadIsImpossible
<1> QED BY <1>1, <1>2, <1>4, <1>5, <1>7, <1>8 DEF IndInv

LEMMA EncodeStep == IndInv /\ Encode => IndInv'
<1> SUFFICES ASSUME IndInv, Encode PROVE IndInv'
    OBVIOUS
<1>1. /\ pc = "collect" /\ pc' = "forced" /\ todo = {} /\ clauses' = AllClauses
      /\ UNCHANGED <<inst, todo, roots, loaded, explored, dead, plan>>
  BY DEF Encode
<1>2. dead = {} /\ inst \in Instances /\ TypeOK
  BY <1>1 DEF IndInv, Answered
<1>3. TypeOK'
  BY <1>1, <1>2, ClausesType DEF TypeOK
<1>4. RootsMatch'
  BY <1>1 DEF IndInv, RootsMatch, Matches
<1>5. /\ RootNames' = RootNames /\ \A q : Acceptable(q)' = Acceptable(q)
      /\ \A q : Mentioned(q)' = Mentioned(q)
      /\ \A q : Followed(q)' = Followed(q)
  BY <1>1, SameVisits, Zenon
<1>6. Visiting'
  BY <1>1, <1>5 DEF IndInv, Visiting
<1>7. AllClauses' = AllClauses
  BY <1>1, SameEncoding, Zenon
<1>8. Encoded' /\ Answered' /\ DeadIsImpossible'
  BY <1>1, <1>2, <1>7 DEF Encoded, Answered, DeadIsImpossible
<1> QED BY <1>1, <1>2, <1>3, <1>4, <1>6, <1>8 DEF IndInv

\* The states in which the clauses have been handed over.
Solving == {"forced", "explain", "relaxed", "done", "unsat"}

\* Solving and explaining leave alone what was collected and encoded.
LEMMA SolvingKeeps ==
    ASSUME IndInv, pc \in Solving, pc' \in Solving,
           UNCHANGED <<inst, todo, roots, loaded, explored, clauses>>
    PROVE  /\ inst' \in Instances /\ RootsMatch' /\ Visiting' /\ Encoded'
           /\ clauses = AllClauses /\ clauses' = AllClauses'
           /\ Models(clauses)' = Models(clauses) /\ Models(Forced)' = Models(Forced)
<1>1. RootsMatch'
  BY DEF IndInv, RootsMatch, Matches, Solving
<1>2. /\ RootNames' = RootNames /\ \A q : Acceptable(q)' = Acceptable(q)
      /\ \A q : Mentioned(q)' = Mentioned(q)
      /\ \A q : Followed(q)' = Followed(q)
  BY SameVisits, Zenon
<1>3. Visiting'
  BY <1>2 DEF IndInv, Visiting, Solving
<1>4. AllClauses' = AllClauses
  BY SameEncoding, Zenon
<1>5. clauses = AllClauses /\ todo = {}
  BY DEF IndInv, Encoded, Solving
<1>6. Encoded' /\ clauses' = AllClauses'
  BY <1>4, <1>5 DEF Encoded
<1>7. Models(clauses)' = Models(clauses) /\ Models(Forced)' = Models(Forced)
  BY SameModels, Zenon
<1>8. inst' \in Instances
  BY DEF IndInv
<1> QED BY <1>1, <1>3, <1>5, <1>6, <1>7, <1>8

LEMMA SolveStep ==
    ASSUME NEW M, M \subseteq Models(clauses), IndInv, Solve(M), pc \in {"forced", "relaxed"},
           pc = "forced" => M \subseteq Models(Forced)
    PROVE  IndInv'
<1>1. /\ pc' = "done" /\ UNCHANGED <<inst, todo, roots, loaded, explored, clauses, dead>>
      /\ \E s \in M : plan' = PlanOf(s)
  BY DEF Solve
<1>2. /\ inst' \in Instances /\ RootsMatch' /\ Visiting' /\ Encoded'
      /\ Models(clauses)' = Models(clauses) /\ Models(Forced)' = Models(Forced)
  BY <1>1, SolvingKeeps DEF Solving
<1>3. PICK s \in M : plan' = PlanOf(s)
  BY <1>1
<1>4. s \subseteq Registered
  BY DEF Models
<1>5. TypeOK'
  <2>1. PlanOf(s) \subseteq [pkg : Pkgs, action : {"install", "upgrade", "downgrade", "reinstall",
                                                   "keep", "remove", "newslot"}]
    BY <1>4, PlanType
  <2> QED BY <1>1, <1>3, <2>1 DEF IndInv, TypeOK
<1>6. PlanOf(s)' = PlanOf(s)
  BY <1>1, SamePlan
<1>7. s \in Models(Forced) \/ Models(Forced) = {}
  BY DEF IndInv, Answered
<1>8. \E t \in Models(clauses)' : plan' = PlanOf(t)' /\ (t \in Models(Forced)' \/ Models(Forced)' = {})
  BY <1>2, <1>3, <1>6, <1>7
<1>9. Answered'
  BY <1>1, <1>8 DEF Answered
<1>10. DeadIsImpossible'
  BY <1>1, <1>2 DEF IndInv, DeadIsImpossible
<1> QED BY <1>2, <1>5, <1>9, <1>10 DEF IndInv

LEMMA ForcedUnsatStep == IndInv /\ ForcedUnsat => IndInv'
<1> SUFFICES ASSUME IndInv, ForcedUnsat PROVE IndInv'
    OBVIOUS
<1>1. /\ pc = "forced" /\ pc' = "explain" /\ Models(Forced) = {}
      /\ dead' = UNION {c.not : c \in {x \in clauses : x.src = "prohibit"}}
      /\ UNCHANGED <<inst, todo, roots, loaded, explored, clauses, plan>>
  BY DEF ForcedUnsat
<1>2. /\ inst' \in Instances /\ RootsMatch' /\ Visiting' /\ Encoded' /\ clauses = AllClauses
      /\ Models(clauses)' = Models(clauses) /\ Models(Forced)' = Models(Forced)
  BY <1>1, SolvingKeeps DEF Solving
<1>3. TypeOK'
  BY <1>1 DEF IndInv, TypeOK
<1>4. Answered'
  BY <1>1, <1>2 DEF Answered
<1>5. ASSUME NEW s \in Models(clauses), NEW p \in s, p \in dead' PROVE FALSE
  <2>1. PICK c \in clauses : c.src = "prohibit" /\ p \in c.not
    BY <1>1, <1>5
  <2>2. c.not = {p} /\ c.some = {}
    BY <1>2, <2>1, ClauseKinds
  <2> QED BY <1>5, <2>1, <2>2 DEF Models, Holds
<1>6. DeadIsImpossible'
  BY <1>2, <1>5 DEF DeadIsImpossible
<1> QED BY <1>2, <1>3, <1>4, <1>6 DEF IndInv

LEMMA PropagateStep == IndInv /\ Propagate => IndInv'
<1> SUFFICES ASSUME IndInv, Propagate PROVE IndInv'
    OBVIOUS
<1>1. /\ pc = "explain" /\ UNCHANGED <<inst, pc, todo, roots, loaded, explored, clauses, plan>>
  BY DEF Propagate
<1>2. PICK p \in Doomed : dead' = dead \cup {p}
  BY DEF Propagate
<1>3. /\ inst' \in Instances /\ RootsMatch' /\ Visiting' /\ Encoded'
      /\ Models(clauses)' = Models(clauses) /\ Models(Forced)' = Models(Forced)
  BY <1>1, SolvingKeeps DEF Solving
<1>4. TypeOK'
  BY <1>1, <1>2 DEF IndInv, TypeOK, Doomed, Registered
<1>5. Answered'
  BY <1>1, <1>3 DEF IndInv, Answered
<1>6. \A s \in Models(clauses) : s \cap dead = {}
  BY DEF IndInv, DeadIsImpossible
<1>7. \A s \in Models(clauses) : p \notin s
  BY <1>2, <1>6 DEF Doomed, Edges, Models, Holds
<1>8. DeadIsImpossible'
  BY <1>2, <1>3, <1>6, <1>7 DEF DeadIsImpossible
<1> QED BY <1>3, <1>4, <1>5, <1>8 DEF IndInv

LEMMA PhaseStep == IndInv /\ (ExplainWhyUNSAT \/ RelaxedUnsat) => IndInv'
<1> SUFFICES ASSUME IndInv, ExplainWhyUNSAT \/ RelaxedUnsat PROVE IndInv'
    OBVIOUS
<1>1. /\ UNCHANGED <<inst, todo, roots, loaded, explored, clauses, dead, plan>>
      /\ \/ pc = "explain" /\ pc' = "relaxed"
         \/ pc = "relaxed" /\ pc' = "unsat" /\ Models(clauses) = {}
  BY DEF ExplainWhyUNSAT, RelaxedUnsat
<1>2. /\ inst' \in Instances /\ RootsMatch' /\ Visiting' /\ Encoded'
      /\ Models(clauses)' = Models(clauses) /\ Models(Forced)' = Models(Forced)
  BY <1>1, SolvingKeeps DEF Solving
<1>3. TypeOK'
  BY <1>1 DEF IndInv, TypeOK
<1>4. Answered'
  BY <1>1, <1>2 DEF IndInv, Answered
<1>5. DeadIsImpossible'
  BY <1>1, <1>2 DEF IndInv, DeadIsImpossible
<1> QED BY <1>2, <1>3, <1>4, <1>5 DEF IndInv

LEMMA StutterStep == IndInv /\ UNCHANGED vars => IndInv'
<1> SUFFICES ASSUME IndInv, UNCHANGED vars PROVE IndInv'
    OBVIOUS
<1>1. UNCHANGED <<inst, pc, todo, roots, loaded, explored, clauses, dead, plan>>
  BY DEF vars
<1>2. AllClauses' = AllClauses
  BY <1>1, SameEncoding
<1>3. Models(clauses)' = Models(clauses) /\ Models(Forced)' = Models(Forced)
  BY <1>1, SameModels
<1>4. \A s : PlanOf(s)' = PlanOf(s)
  BY <1>1, SamePlan
<1>5. /\ RootNames' = RootNames /\ \A q : Acceptable(q)' = Acceptable(q)
      /\ \A q : Mentioned(q)' = Mentioned(q)
      /\ \A q : Followed(q)' = Followed(q)
  BY <1>1, SameVisits, Zenon
<1>6. inst' \in Instances /\ TypeOK' /\ RootsMatch' /\ Encoded'
  BY <1>1, <1>2 DEF IndInv, TypeOK, RootsMatch, Matches, Encoded
<1>7. Visiting'
  BY <1>1, <1>5 DEF IndInv, Visiting
<1>8. Answered' /\ DeadIsImpossible'
  BY <1>1, <1>3, <1>4 DEF IndInv, Answered, DeadIsImpossible
<1> QED BY <1>6, <1>7, <1>8 DEF IndInv

LEMMA Invariance == Spec => []IndInv
<1>1. Init => IndInv
  BY InstanceType DEF Init, IndInv, TypeOK, RootsMatch, Visiting, Encoded, Answered, DeadIsImpossible
<1>2. ASSUME IndInv, [Next]_vars PROVE IndInv'
  <2>1. Models(Forced) \subseteq Models(clauses)
    BY ForcedIsModel
  <2>2. CASE LoadRoot
    BY <1>2, <2>2, LoadRootStep
  <2>3. CASE StartCollect
    BY <1>2, <2>3, StartCollectStep
  <2>4. CASE \E p \in Pkgs : CollectDependencies(p)
    BY <1>2, <2>4, CollectStep
  <2>5. CASE Encode
    BY <1>2, <2>5, EncodeStep
  <2>6. CASE SolveForced
    BY <1>2, <2>1, <2>6, CheapestIsModel, SolveStep DEF SolveForced
  <2>7. CASE SolveForcedTimeout
    BY <1>2, <2>1, <2>7, SolveStep DEF SolveForcedTimeout
  <2>8. CASE SolveRelaxed
    BY <1>2, <2>8, CheapestIsModel, SolveStep DEF SolveRelaxed
  <2>9. CASE SolveRelaxedTimeout
    BY <1>2, <2>9, SolveStep DEF SolveRelaxedTimeout
  <2>10. CASE ForcedUnsat
    BY <1>2, <2>10, ForcedUnsatStep
  <2>11. CASE Propagate
    BY <1>2, <2>11, PropagateStep
  <2>12. CASE ExplainWhyUNSAT \/ RelaxedUnsat
    BY <1>2, <2>12, PhaseStep
  <2>13. CASE Returned \/ UNCHANGED vars
    BY <1>2, <2>13, StutterStep DEF Returned
  <2> QED
    BY <1>2, <2>2, <2>3, <2>4, <2>5, <2>6, <2>7, <2>8, <2>9, <2>10, <2>11, <2>12, <2>13 DEF Next
<1> QED BY <1>1, <1>2, PTL DEF Spec

\* Every state of Resolve is well-formed: the roots, clauses and actions are
\* of their kinds, whatever the tree and the request.
THEOREM TypeCorrect == Spec => []TypeOK
<1>1. IndInv => TypeOK
  BY DEF IndInv
<1> QED BY <1>1, Invariance, PTL

-----------------------------------------------------------------------------
(* The plan *)

\* What buildResultFromSolution makes of a model.
LEMMA PlanRead ==
    ASSUME NEW s, plan = PlanOf(s)
    PROVE  /\ Selected = s
           /\ Rebuilt = {p \in s : determineAction(p) # "keep"}
           /\ \A q : q \in Removed(s) => [pkg |-> q, action |-> "remove"] \in plan
<1>1. \A p : determineAction(p) # "remove"
  BY DEF determineAction
<1>2. \A e \in plan : \/ e.pkg \in s /\ e.action = determineAction(e.pkg)
                      \/ e.action = "remove"
  BY DEF PlanOf
<1>3. \A p \in s : \E e \in plan : e.pkg = p /\ e.action = determineAction(p)
  <2>1. \A p \in s : [pkg |-> p, action |-> determineAction(p)] \in plan
    BY DEF PlanOf
  <2> QED BY <2>1
<1>4. \A q : q \in Removed(s) => [pkg |-> q, action |-> "remove"] \in plan
  BY DEF PlanOf
<1>5. Selected = s
  BY <1>1, <1>2, <1>3 DEF Selected
<1>6. Rebuilt = {p \in s : determineAction(p) # "keep"}
  BY <1>1, <1>2, <1>3 DEF Rebuilt
<1> QED BY <1>4, <1>5, <1>6

\* A finished call has the plan of some model.
LEMMA DoneHasModel ==
    ASSUME IndInv, pc = "done"
    PROVE  \E s \in Models(AllClauses) : plan = PlanOf(s) /\ s \subseteq Registered
<1>1. clauses = AllClauses
  BY DEF IndInv, Encoded
<1>2. PICK s \in Models(clauses) : plan = PlanOf(s)
  BY DEF IndInv, Answered
<1> QED BY <1>1, <1>2 DEF Models

\* Only an installed package is kept as it is, and one whose dependencies are
\* not looked at is kept.
LEMMA Kept ==
    ASSUME NEW p \in Pkgs
    PROVE  /\ determineAction(p) = "keep" => p \in inst.installed
           /\ SkipAllDeps(p) => determineAction(p) = "keep"
<1>1. determineAction(p) = "keep" => p \in inst.installed
  BY DEF determineAction
<1>2. ASSUME SkipAllDeps(p) PROVE determineAction(p) = "keep"
  <2>1. p \in inst.installed /\ ~opts.newUse /\ NameOf[p] \notin RootNames
    BY <1>2 DEF SkipAllDeps, InstalledSame, Installed
  <2> QED BY <2>1 DEF determineAction
<1> QED BY <1>1, <1>2

LEMMA PlanMeets ==
    ASSUME Regular, NEW s \in Models(AllClauses), plan = PlanOf(s), inst \in Instances,
           NEW p \in Rebuilt, NEW g \in Deps(p)
    PROVE  Met(g, SystemAfter) \/ (g.build /\ p \in Installed /\ ~opts.newUse)
<1>1. Selected = s /\ Rebuilt = {q \in s : determineAction(q) # "keep"} /\ s \subseteq Registered
  BY PlanRead DEF Models
<1>2. s \subseteq Pkgs /\ p \in s /\ p \in Pkgs
  BY <1>1 DEF Registered
<1>3. ~SkipAllDeps(p)
  BY <1>1, <1>2, Kept
<1>4. CASE g \in GroupsOf(p)
  <2>1. PICK q \in s : q \in Providers(g)
    BY <1>2, <1>4, ModelMeets
  <2>2. PICK a \in Range(g.alts) : Provides(g, a, q)
    BY <2>1 DEF Providers
  <2>3. Matches(a, q)
    BY <1>2, <2>2 DEF Provides, Matches, Regular
  <2>4. Flag(q) = inst.use[q]
    <3>1. CASE q \in Installed
      <4>1. inst.vdbUse[q] = inst.use[q]
        BY <3>1 DEF Regular, Installed
      <4>2. inst.use[q] \in BOOLEAN
        BY <1>2, InstancesAssumption
      <4> QED BY <3>1, <4>1, <4>2 DEF Flag
    <3> QED BY <3>1 DEF Flag
  <2>5. FlagAfter(q) = inst.use[q]
    BY <1>1, <1>2, Kept DEF FlagAfter, Regular
  <2>6. UseOK(a, FlagAfter(q))
    BY <2>2, <2>4, <2>5 DEF Provides
  <2>7. q \in SystemAfter
    BY <1>1 DEF SystemAfter
  <2> QED BY <2>2, <2>3, <2>6, <2>7 DEF Met
<1>5. CASE g \notin GroupsOf(p)
  BY <1>3, <1>5 DEF GroupsOf, InstalledSame
<1> QED BY <1>4, <1>5

\* Whatever tree and VDB Resolve is called on and whatever model the SAT solver
\* returns, a returned plan works, and ExplainWhyUNSAT calls only packages dead
\* that no plan could have.
THEOREM AnswersAreTrue == Spec => []AnswerTrue
<1>1. ASSUME IndInv, pc = "done", Regular
      PROVE  /\ \A p \in Rebuilt : \A g \in Deps(p) :
                   Met(g, SystemAfter) \/ (g.build /\ p \in Installed /\ ~opts.newUse)
             /\ \A x \in roots : Acceptable(x.pkg) => \E p \in Selected : Matches(x.req, p)
             /\ \A p \in Selected : \A q \in SystemAfter : SameSlot(p, q) => p = q
  <2>1. PICK s \in Models(AllClauses) : plan = PlanOf(s) /\ s \subseteq Registered
    BY <1>1, DoneHasModel
  <2>2. Selected = s /\ inst \in Instances
    BY <1>1, <2>1, PlanRead DEF IndInv
  <2>3. ASSUME NEW p \in Rebuilt, NEW g \in Deps(p)
        PROVE  Met(g, SystemAfter) \/ (g.build /\ p \in Installed /\ ~opts.newUse)
    BY <1>1, <2>1, <2>2, PlanMeets
  <2>4. ASSUME NEW x \in roots, Acceptable(x.pkg)
        PROVE  \E p \in Selected : Matches(x.req, p)
    <3>1. x.pkg \in Pkgs /\ NameOf[x.pkg] \in loaded /\ Matches(x.req, x.pkg)
      BY <1>1 DEF IndInv, TypeOK, Visiting, RootNames, RootsMatch
    <3>2. x.pkg \in Registered
      BY <2>4, <3>1 DEF Registered
    <3>3. RootVars(x) # {} /\ \A p \in RootVars(x) : Matches(x.req, p)
      BY <3>1, <3>2 DEF RootVars
    <3> QED BY <2>2, <3>3, ModelRoots
  <2>5. ASSUME NEW p \in Selected, NEW q \in SystemAfter, SameSlot(p, q) PROVE p = q
    <3>1. CASE q \in Selected
      BY <2>2, <2>5, <3>1, ModelSlots
    <3>2. CASE q \notin Selected
      BY <2>5, <3>2 DEF SystemAfter
    <3> QED BY <3>1, <3>2
  <2> QED BY <2>3, <2>4, <2>5
<1>2. IndInv => AnswerTrue
  BY <1>1 DEF AnswerTrue, PlanSound, IndInv
<1> QED BY <1>2, Invariance, PTL

\* What a visited package that is newly installed blocks is not in the system
\* after the plan, in whatever way it came to be selected: the names it blocks
\* are loaded, so a conflict clause or addRemovedPackages deals with them.
THEOREM BlockedIsGone == Spec => []BlockersHonoured
<1>1. ASSUME IndInv, pc = "done", ~opts.emptyTree,
             NEW p \in (Selected \cap explored) \ inst.installed, NEW a \in inst.blocks[p],
             NEW q \in SystemAfter \ {p}, Matches(a, q)
      PROVE  FALSE
  <2>1. PICK s \in Models(AllClauses) : plan = PlanOf(s) /\ s \subseteq Registered
    BY <1>1, DoneHasModel
  <2>2. Selected = s /\ \A r : r \in Removed(s) => [pkg |-> r, action |-> "remove"] \in plan
    BY <2>1, PlanRead
  <2>3. clauses = AllClauses /\ a.name \in loaded
    BY <1>1 DEF IndInv, Encoded, Visiting, Mentioned
  <2>4. ~SkipAllDeps(p) /\ Installed = inst.installed
    BY <1>1 DEF SkipAllDeps, InstalledSame, Installed
  <2>5. CASE q \in Selected
    BY <1>1, <2>2, <2>4, <2>5, ModelApart
  <2>6. CASE q \notin Selected
    <3>1. /\ q \in inst.installed /\ [pkg |-> q, action |-> "remove"] \notin plan
          /\ \A r \in Selected : ~SameSlot(r, q)
      BY <1>1, <2>6 DEF SystemAfter
    <3>2. q \in Pkgs /\ q \in Registered
      BY <1>1, <2>3, <2>4, <3>1, InstanceType DEF IndInv, Registered, Matches
    <3> DEFINE c == [not |-> {p, q}, some |-> {}, src |-> "conflict"]
    <3>3. c \in clauses
      BY <1>1, <2>1, <2>2, <2>3, <2>4, <3>2, ConflictEncoded
    <3>4. c.src = "conflict" /\ q \in c.not /\ p \in (c.not \ {q}) \cap s
      BY <1>1, <2>2
    <3> HIDE DEF c
    <3>5. q \in Removed(s)
      BY <2>2, <2>4, <3>1, <3>2, <3>3, <3>4 DEF Removed, SameSlot
    <3> QED BY <2>2, <3>1, <3>5
  <2> QED BY <2>5, <2>6
<1>2. IndInv => BlockersHonoured
  BY <1>1 DEF BlockersHonoured, BlockedApart
<1> QED BY <1>2, Invariance, PTL

-----------------------------------------------------------------------------
(* Completeness of the encoding *)

\* With --deep or --emptytree the visited part of an answer is a model: the
\* candidates of the roots are visited, and so is every provider of a visited
\* package.
LEMMA AnswerIsModel ==
    ASSUME IndInv, clauses = AllClauses, todo = {}, pc \in {"done", "unsat"},
           Regular, opts.deep \/ opts.emptyTree, \A p \in Installed : Acceptable(p),
           NEW s \in Answers
    PROVE  s \cap explored \in Models(clauses)
<1> DEFINE t == s \cap explored
<1>1. /\ \A p \in explored : p \in Pkgs /\ Acceptable(p) /\ NameOf[p] \in loaded
      /\ \A q \in Pkgs : Acceptable(q) /\ NameOf[q] \in RootNames => q \in explored
      /\ \A p \in explored : \A q \in Pkgs : \A a \in Followed(p) :
            Acceptable(q) /\ a.name = NameOf[q] => q \in explored
  BY DEF IndInv, Visiting
<1>2. \A p \in s : p \in Pkgs /\ Acceptable(p)
  BY DEF Answers, Available
<1>3. explored \subseteq Registered
  BY <1>1 DEF Registered
<1>4. \A p : Followed(p) = AtomsOf(p)
  BY DEF Followed, SatisfiedByInstalled, Installed
<1>5. ASSUME NEW x \in roots PROVE RootVars(x) \cap t # {}
  <2>1. PICK p \in s : Matches(x.req, p)
    BY DEF Answers
  <2>2. Matches(x.req, x.pkg) /\ NameOf[x.pkg] \in RootNames
    BY DEF IndInv, RootsMatch, RootNames
  <2>3. p \in explored
    BY <1>1, <1>2, <2>1, <2>2 DEF Matches
  <2> QED BY <1>3, <2>1, <2>3 DEF RootVars
<1>6. ASSUME NEW p \in t, NEW g \in GroupsOf(p) PROVE Providers(g) \cap t # {}
  <2>1. g \in Deps(p) /\ ~(g.build /\ InstalledSame(p))
    BY DEF GroupsOf
  <2>2. PICK a \in Range(g.alts) : \E q \in s : Matches(a, q) /\ UseOK(a, Flag(q))
    BY <2>1 DEF Answers
  <2>3. PICK q \in s : Matches(a, q) /\ UseOK(a, Flag(q))
    BY <2>2
  <2>4. a \in Followed(p) /\ a.name = NameOf[q]
    BY <1>4, <2>3 DEF AtomsOf, Matches
  <2>5. q \in explored
    BY <1>1, <1>2, <2>4
  <2>6. Provides(g, a, q)
    BY <2>3 DEF Provides, Matches
  <2> QED BY <1>3, <2>5, <2>6 DEF Providers
<1>7. ASSUME NEW p \in t, NEW q \in t \ {p}, NEW a \in inst.blocks[p], Matches(a, q) PROVE FALSE
  BY <1>7 DEF Answers
<1>8. \A p, q \in t : SameSlot(p, q) => p = q
  BY DEF Answers
<1> HIDE DEF t
<1>9. ASSUME NEW c \in clauses PROVE Holds(c, t)
  <2>1. CASE \E x \in roots : c = [not |-> {}, some |-> RootVars(x), src |-> "root"]
    BY <1>5, <2>1 DEF Holds
  <2>2. CASE \E u \in SUBSET Registered :
                /\ c = [not |-> u, some |-> {}, src |-> "at-most-one"]
                /\ Cardinality(u) = 2
                /\ \A p, q \in u : SameSlot(p, q)
    <3>1. PICK u \in SUBSET Registered : c.not = u /\ Cardinality(u) = 2 /\ \A p, q \in u : SameSlot(p, q)
      BY <2>2
    <3>2. ASSUME u \subseteq t PROVE FALSE
      <4>1. \A p, q \in u : p = q
        BY <1>8, <3>1, <3>2
      <4>2. u # {}
        BY <3>1, FS_EmptySet
      <4>3. PICK p \in u : TRUE
        BY <4>2
      <4>4. u = {p}
        BY <4>1, <4>3
      <4>5. Cardinality({p}) = 1
        BY FS_Singleton
      <4> QED BY <3>1, <4>4, <4>5
    <3> QED BY <3>1, <3>2 DEF Holds
  <2>3. CASE \E p \in Registered : \E g \in GroupsOf(p) :
                c = [not |-> {p}, some |-> Providers(g),
                     src |-> IF Providers(g) = {} THEN "prohibit" ELSE "implication"]
    <3>1. PICK p \in Registered : \E g \in GroupsOf(p) : c.not = {p} /\ c.some = Providers(g)
      BY <2>3
    <3> QED BY <1>6, <3>1 DEF Holds
  <2>4. CASE \E p \in Registered : \E q \in Registered \ {p} :
                /\ c = [not |-> {p, q}, some |-> {}, src |-> "conflict"]
                /\ \E a \in inst.blocks[p] : Matches(a, q)
    <3>1. PICK p \in Registered : \E q \in Registered \ {p} :
             c.not = {p, q} /\ \E a \in inst.blocks[p] : Matches(a, q)
      BY <2>4
    <3> QED BY <1>7, <3>1 DEF Holds
  <2> QED BY <2>1, <2>2, <2>3, <2>4, ClauseKinds, Zenon
<1>10. t \subseteq Registered
  BY <1>3 DEF t
<1> QED BY <1>9, <1>10 DEF Models, t

\* With --deep or --emptytree, and every installed package still in the tree,
\* Resolve reports failure only if no answer exists, and departs from the
\* preferred versions of the roots only if no answer has them all.
THEOREM NoAnswerMissed == Spec => []PreferredWhenPossible
<1>1. ASSUME IndInv, pc \in {"done", "unsat"}, Regular, opts.deep \/ opts.emptyTree,
             \A p \in Installed : Acceptable(p), \A x \in roots : Acceptable(x.pkg)
      PROVE  /\ pc = "unsat" => Answers = {}
             /\ pc = "done" /\ ~(Preferred \subseteq Selected) => \A s \in Answers : ~(Preferred \subseteq s)
  <2>1. clauses = AllClauses /\ todo = {}
    BY <1>1 DEF IndInv, Encoded
  <2>2. \A s \in Answers : s \cap explored \in Models(clauses)
    BY <1>1, <2>1, AnswerIsModel
  <2>3. ASSUME pc = "unsat" PROVE Answers = {}
    <3>1. Models(clauses) = {}
      BY <1>1, <2>3 DEF IndInv, Answered
    <3> QED BY <2>2, <3>1
  <2>4. ASSUME pc = "done", ~(Preferred \subseteq Selected), NEW s \in Answers, Preferred \subseteq s
        PROVE  FALSE
    <3>1. Preferred \subseteq explored
      BY <1>1, <2>1 DEF IndInv, Visiting, TypeOK, Preferred, RootNames
    <3>2. explored \subseteq Registered
      BY <1>1 DEF IndInv, Visiting, Registered
    <3>3. s \cap explored \in Models(Forced)
      BY <2>2, <2>4, <3>1 DEF Models, Forced, Holds
    <3>4. PICK u \in Models(Forced) : plan = PlanOf(u)
      BY <1>1, <2>4, <3>3 DEF IndInv, Answered
    <3>5. ASSUME NEW p \in Preferred PROVE p \in u
      <4> DEFINE c == [not |-> {}, some |-> {p}, src |-> "forced"]
      <4>1. c \in Forced
        BY <3>1, <3>2 DEF Forced
      <4>2. c.not = {} /\ c.some = {p}
        OBVIOUS
      <4> HIDE DEF c
      <4> QED BY <4>1, <4>2 DEF Models, Holds
    <3>6. Selected = u
      BY <3>4, PlanRead
    <3> QED BY <2>4, <3>5, <3>6
  <2> QED BY <2>3, <2>4
<1>2. IndInv => PreferredWhenPossible
  BY <1>1, Zenon DEF PreferredWhenPossible
<1> QED BY <1>2, Invariance, PTL
=============================================================================
