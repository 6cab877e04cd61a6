------------------------------ MODULE Resolver ------------------------------
(***************************************************************************)
(* PortageResolver.Resolve and the GophersatAdapter (internal/solver): the *)
(* requested atoms are loaded, the packages their dependencies may reach   *)
(* are collected, everything is encoded as clauses, and a SAT solver is    *)
(* asked twice, first with the preferred roots forced, then without.       *)
(*                                                                         *)
(* A package is a version of a name in a slot with one USE flag.  An atom  *)
(* is a record [name, vers, slot, use]: the versions its operator accepts, *)
(* a slot or AnySlot, and what it asks of the flag ("any", "on", "off").   *)
(* A dependency is a group [alts, or, build]: a sequence of alternatives,  *)
(* a single one unless `or`.  A clause [not, some, src] reads: if all of   *)
(* `not` are selected, one of `some` is.  The SAT solver is external: it   *)
(* returns a cheapest model or, when it runs out of time, any model.       *)
(***************************************************************************)
EXTENDS Integers, Sequences, FiniteSetsExt

CONSTANTS
    Pkgs, Names, Slots, AnySlot,
    NameOf, VerOf, SlotOf,      \* functions on Pkgs
    Instances                   \* the trees, VDBs, options and requests considered

ASSUME PkgsAssumption ==
    /\ IsFiniteSet(Pkgs)
    /\ NameOf \in [Pkgs -> Names] /\ VerOf \in [Pkgs -> Nat] /\ SlotOf \in [Pkgs -> Slots]
    /\ AnySlot \notin Slots
    /\ \A p, q \in Pkgs : NameOf[p] = NameOf[q] /\ VerOf[p] = VerOf[q] => p = q

Versions == {VerOf[p] : p \in Pkgs}
Atoms == [name : Names, vers : SUBSET Nat, slot : Slots \cup {AnySlot}, use : {"any", "on", "off"}]
Requests == [name : Names, vers : SUBSET Nat, slot : Slots \cup {AnySlot}, exact : BOOLEAN]
Masks == {"no", "mask", "keyword", "unkeyworded"}
Options == [deep : BOOLEAN, newUse : BOOLEAN, update : BOOLEAN, emptyTree : BOOLEAN]
Groups == [alts : Seq(Atoms), or : BOOLEAN, build : BOOLEAN]

\* What a call of Resolve may find: any tree, any VDB, any options, any request.
ASSUME InstancesAssumption ==
    Instances \subseteq [deps : [Pkgs -> SUBSET Groups], blocks : [Pkgs -> SUBSET Atoms],
                         use : [Pkgs -> BOOLEAN], vdbUse : [Pkgs -> BOOLEAN],
                         repo : SUBSET Pkgs, mask : [Pkgs -> Masks], installed : SUBSET Pkgs,
                         opts : Options, request : Seq(Requests)]

VARIABLES
    inst,           \* what Resolve is called with; it never changes
    pc,
    todo,           \* load: the requests left; collect: the collectDependencies calls due
    roots,          \* rootPackagesMap and rootAtoms: a set of [pkg, req]
    loaded,         \* the names with an entry in allCandidates
    explored,       \* allPackages, before the installed packages are added
    clauses,
    dead,           \* the unsatTracer's dead packages
    plan            \* the ResolveResult: a set of [pkg, action]

vars == <<inst, pc, todo, roots, loaded, explored, clauses, dead, plan>>

opts == inst.opts
Deps(p) == inst.deps[p]
\* What the resolver takes for installed.
Installed == IF opts.emptyTree THEN {} ELSE inst.installed

-----------------------------------------------------------------------------
(* Atoms, constraints and filters *)

\* Atom.Matches: name, version and slot; USE is no part of it.
Matches(a, p) ==
    /\ NameOf[p] = a.name /\ VerOf[p] \in a.vers
    /\ a.slot = AnySlot \/ SlotOf[p] = a.slot

\* PackageSatisfiesUseDeps
UseOK(a, flag) == a.use = "any" \/ (a.use = "on") = flag

\* isPackageAcceptable, filterMaskedPackages
Acceptable(p) == p \in inst.repo /\ inst.mask[p] = "no"

Highest(S) == CHOOSE p \in S : \A q \in S : VerOf[q] <= VerOf[p]

\* HasVersion() || Slot != "" fails
Bare(r) == r.vers = Versions /\ r.slot = AnySlot

-----------------------------------------------------------------------------
(* Loading the roots *)

\* loadPackageFromAtom: the package, or "skipped" for an error whose text
\* contains "masked", or "failed" for any other.  An exact version is not
\* filtered; the error for a missing KEYWORDS does not contain the word.
loadPackageFromAtom(r) ==
    LET found == {p \in inst.repo : Matches(r, p)}
        fit   == IF r.exact THEN found ELSE {p \in found : Acceptable(p)}
    IN IF found = {} THEN [status |-> "failed"]
       ELSE IF fit # {} THEN [status |-> "ok", pkg |-> Highest(fit)]
       ELSE IF Bare(r) /\ inst.mask[Highest(found)] = "unkeyworded" THEN [status |-> "failed"]
       ELSE [status |-> "skipped"]

RootNames == {NameOf[x.pkg] : x \in roots}
Preferred == {x.pkg : x \in roots}

\* The loop over the requested atoms: a name that is requested twice keeps
\* the last atom.
LoadRoot ==
    /\ pc = "load" /\ todo # <<>>
    /\ LET l == loadPackageFromAtom(Head(todo)) IN
       /\ pc' = IF l.status = "failed" THEN "failed" ELSE "load"
       /\ roots' = IF l.status # "ok" THEN roots
                   ELSE {x \in roots : NameOf[x.pkg] # NameOf[l.pkg]}
                          \cup {[pkg |-> l.pkg, req |-> Head(todo)]}
    /\ todo' = Tail(todo)
    /\ UNCHANGED <<inst, loaded, explored, clauses, dead, plan>>

\* The candidates of every root name are collected.
StartCollect ==
    /\ pc = "load" /\ todo = <<>>
    /\ pc' = "collect"
    /\ loaded' = RootNames
    /\ todo' = {p \in Pkgs : Acceptable(p) /\ NameOf[p] \in RootNames}
    /\ UNCHANGED <<inst, roots, explored, clauses, dead, plan>>

-----------------------------------------------------------------------------
(* Collecting dependencies *)

\* isDepSatisfiedByInstalled: version and slot, not USE.
SatisfiedByInstalled(a) == \E p \in Installed : Matches(a, p)

\* findInstalledInSlot finds the version that is in hand.
InstalledSame(p) == p \in Installed /\ ~opts.newUse

\* What collectDependencies and addPackageConstraints look at.
SkipAllDeps(p) == InstalledSame(p) /\ ~opts.deep /\ NameOf[p] \notin RootNames
GroupsOf(p) ==
    IF SkipAllDeps(p) THEN {} ELSE {g \in Deps(p) : ~(InstalledSame(p) /\ g.build)}
AtomsOf(p) == UNION {Range(g.alts) : g \in GroupsOf(p)}

\* Mutant: only the first alternative of an any-of group is explored.
Followed_FirstOnly(p) ==
    {g.alts[1] : g \in GroupsOf(p)} \ {a \in AtomsOf(p) : ~opts.deep /\ SatisfiedByInstalled(a)}

\* The dependencies whose candidates are explored in their turn.
Followed(p) == {a \in AtomsOf(p) : opts.deep \/ ~SatisfiedByInstalled(a)}

\* Mutant: what a blocker names is not registered.
Mentioned_NoBlockers(p) == {NameOf[p]} \cup {a.name : a \in AtomsOf(p)}

\* The names that addCandidateVersions is called with.
Mentioned(p) ==
    {NameOf[p]} \cup {a.name : a \in inst.blocks[p]} \cup {a.name : a \in AtomsOf(p)}

\* One call of collectDependencies.  The calls it makes in turn are due; the
\* order in which they are made does not change what is collected.
CollectDependencies(p) ==
    /\ pc = "collect" /\ p \in todo
    /\ explored' = explored \cup {p}
    /\ loaded' = loaded \cup Mentioned(p)
    /\ todo' = (todo \cup {q \in Pkgs : Acceptable(q) /\ \E a \in Followed(p) : a.name = NameOf[q]})
                 \ explored'
    /\ UNCHANGED <<inst, pc, roots, clauses, dead, plan>>

-----------------------------------------------------------------------------
(* Encoding *)

\* The packages with a SAT variable: the candidates of loaded names and,
\* by addInstalledCandidates, the installed packages of these names.
Registered == {p \in Pkgs : NameOf[p] \in loaded /\ (Acceptable(p) \/ p \in Installed)}

\* The flag a candidate has for the solver: a flag of the VDB is only ever
\* added to that of the tree; a package that is not a candidate of the tree
\* comes from the VDB.
Flag(p) ==
    IF p \notin Installed THEN inst.use[p]
    ELSE IF Acceptable(p) THEN inst.use[p] \/ inst.vdbUse[p] ELSE inst.vdbUse[p]

\* findSatisfyingVars and AddImplicationOrGroup: alternatives of an any-of
\* group are not compared by slot.
Provides(g, a, p) ==
    /\ NameOf[p] = a.name /\ VerOf[p] \in a.vers /\ UseOK(a, Flag(p))
    /\ g.or \/ a.slot = AnySlot \/ SlotOf[p] = a.slot
Providers(g) == {p \in Registered : \E a \in Range(g.alts) : Provides(g, a, p)}

\* Mutant: a dependency that nothing provides is skipped.
Implication_Lenient(p, g) ==
    IF Providers(g) = {} THEN {}
    ELSE {[not |-> {p}, some |-> Providers(g), src |-> "implication"]}

\* AddImplicationConstraint, ...SlotConstraint and ...OrGroup: without a
\* provider the dependent is prohibited.
Implication(p, g) ==
    {[not |-> {p}, some |-> Providers(g), src |-> IF Providers(g) = {} THEN "prohibit" ELSE "implication"]}

\* AddBlockerConflict, for a package whose dependencies are encoded at all.
Conflicts(p) ==
    {[not |-> {p, q}, some |-> {}, src |-> "conflict"] :
        q \in {q \in Registered \ {p} : ~SkipAllDeps(p) /\ \E a \in inst.blocks[p] : Matches(a, q)}}

\* addPackageConstraints
PackageClauses(p) == Conflicts(p) \cup UNION {Implication(p, g) : g \in GroupsOf(p)}

\* addRootConstraints: the registered versions that the atom accepts, or the
\* root itself; a root without a variable leaves no clause.
RootVars(x) ==
    LET m == {p \in Registered : Matches(x.req, p)}
    IN IF m # {} THEN m ELSE {x.pkg} \cap Registered
RootClauses == {[not |-> {}, some |-> RootVars(x), src |-> "root"] : x \in {y \in roots : RootVars(y) # {}}}

\* AddAtMostOnePerSlot
SlotClauses ==
    {[not |-> pq, some |-> {}, src |-> "at-most-one"] :
        pq \in {s \in SUBSET Registered : Cardinality(s) = 2 /\
                  \A p, q \in s : NameOf[p] = NameOf[q] /\ SlotOf[p] = SlotOf[q]}}

AllClauses == RootClauses \cup SlotClauses \cup UNION {PackageClauses(p) : p \in Registered}

Encode ==
    /\ pc = "collect" /\ todo = {}
    /\ pc' = "forced"
    /\ clauses' = AllClauses
    /\ UNCHANGED <<inst, todo, roots, loaded, explored, dead, plan>>

-----------------------------------------------------------------------------
(* Solving *)

Holds(c, s) == c.not \subseteq s => c.some \cap s # {}
Models(cl) == {s \in SUBSET Registered : \A c \in cl : Holds(c, s)}

\* Phase 1 adds a unit clause for every preferred root with a variable.
Forced == clauses \cup {[not |-> {}, some |-> {p}, src |-> "forced"] : p \in Preferred \cap Registered}

\* buildVersionPreferences: newest first for roots and with --update --deep,
\* otherwise the installed version before the others.
Rank(p) ==
    LET same  == {q \in Registered : NameOf[q] = NameOf[p]}
        newer == {q \in same : VerOf[q] > VerOf[p]}
        kept  == {q \in same : q \in Installed /\ \A r \in same \cap Installed : VerOf[r] <= VerOf[q]}
        isRoot == \E x \in roots : \E q \in RootVars(x) : NameOf[q] = NameOf[p]
    IN IF isRoot \/ (opts.update /\ opts.deep) \/ kept = {} THEN Cardinality(newer)
       ELSE IF p \in kept THEN 0
       ELSE 1 + Cardinality(newer \ kept)

\* sortAlternativesByInstalled
IsInstalledName(n) == \E p \in Installed : NameOf[p] = n
Sorted(alts) ==
    SelectSeq(alts, LAMBDA a : IsInstalledName(a.name)) \o SelectSeq(alts, LAMBDA a : ~IsInstalledName(a.name))

\* orGroupPrefs: the leftmost position at which some encoded group mentions
\* the package, 0 if none does.
OrPositions(p) ==
    UNION {{i - 1 : i \in {i \in DOMAIN g.alts : Provides(g, Sorted(g.alts)[i], p)}} :
             g \in UNION {{h \in GroupsOf(q) : h.or} : q \in Registered}}
OrPosition(p) == IF OrPositions(p) = {} THEN 0 ELSE Min(OrPositions(p))

OrWeight == Max({2} \cup {Rank(p) + 1 : p \in Registered})
Cheapest(M) ==
    LET w == OrWeight
        penalty == [p \in Registered |-> Rank(p) + w * OrPosition(p)]
        cost == [s \in M |-> MapThenSumSet(LAMBDA p : penalty[p], s)]
    IN {s \in M : \A t \in M : cost[s] <= cost[t]}

\* determineAction consults the VDB even with --emptytree.
determineAction(p) ==
    LET there == {q \in inst.installed : NameOf[q] = NameOf[p]}
        same  == {q \in there : SlotOf[q] = SlotOf[p]}
    IN IF same = {} THEN IF there = {} THEN "install" ELSE "newslot"
       ELSE IF p \in same THEN IF opts.newUse \/ NameOf[p] \in RootNames THEN "reinstall" ELSE "keep"
       ELSE IF VerOf[p] > VerOf[Highest(same)] THEN "upgrade" ELSE "downgrade"

\* addRemovedPackages: an installed package whose slot the plan leaves alone
\* is removed when a conflict clause ties it to a selected package.
Removed(s) ==
    {q \in Installed \cap Registered :
        /\ \A p \in s : NameOf[p] # NameOf[q] \/ SlotOf[p] # SlotOf[q]
        /\ \E c \in clauses : c.src = "conflict" /\ q \in c.not /\ (c.not \ {q}) \cap s # {}}

PlanOf(s) ==
    {[pkg |-> p, action |-> determineAction(p)] : p \in s}
      \cup {[pkg |-> q, action |-> "remove"] : q \in Removed(s)}

Solve(choice) ==
    /\ \E s \in choice : plan' = PlanOf(s)
    /\ pc' = "done"
    /\ UNCHANGED <<inst, todo, roots, loaded, explored, clauses, dead>>

\* Phase 1 and phase 2, each with a cheapest model and with the model of the
\* plain SAT call, which is used when the optimisation takes too long.
SolveForced == pc = "forced" /\ Solve(Cheapest(Models(Forced)))
SolveForcedTimeout == pc = "forced" /\ Solve(Models(Forced))
SolveRelaxed == pc = "relaxed" /\ Solve(Cheapest(Models(clauses)))
SolveRelaxedTimeout == pc = "relaxed" /\ Solve(Models(clauses))

ForcedUnsat ==
    /\ pc = "forced" /\ Models(Forced) = {}
    /\ pc' = "explain"
    /\ dead' = UNION {c.not : c \in {x \in clauses : x.src = "prohibit"}}
    /\ UNCHANGED <<inst, todo, roots, loaded, explored, clauses, plan>>

RelaxedUnsat ==
    /\ pc = "relaxed" /\ Models(clauses) = {}
    /\ pc' = "unsat"
    /\ UNCHANGED <<inst, todo, roots, loaded, explored, clauses, dead, plan>>

-----------------------------------------------------------------------------
(* Explaining *)

Edges(p) == {c \in clauses : c.src = "implication" /\ c.not = {p}}

\* The packages one of whose implications has only dead providers.
Doomed == {p \in Registered \ dead : \E c \in Edges(p) : c.some \subseteq dead}

\* unsatTracer.propagate, one package of the work list at a time.
Propagate ==
    /\ pc = "explain"
    /\ \E p \in Doomed : dead' = dead \cup {p}
    /\ UNCHANGED <<inst, pc, todo, roots, loaded, explored, clauses, plan>>

ExplainWhyUNSAT ==
    /\ pc = "explain" /\ Doomed = {}
    /\ pc' = "relaxed"
    /\ UNCHANGED <<inst, todo, roots, loaded, explored, clauses, dead, plan>>

-----------------------------------------------------------------------------
Init ==
    /\ inst \in Instances
    /\ pc = "load" /\ todo = inst.request
    /\ roots = {} /\ loaded = {} /\ explored = {}
    /\ clauses = {} /\ dead = {} /\ plan = {}

Returned == pc \in {"done", "unsat", "failed"} /\ UNCHANGED vars

Next ==
    \/ LoadRoot \/ StartCollect
    \/ \E p \in Pkgs : CollectDependencies(p)
    \/ Encode
    \/ SolveForced \/ SolveForcedTimeout \/ ForcedUnsat
    \/ Propagate \/ ExplainWhyUNSAT
    \/ SolveRelaxed \/ SolveRelaxedTimeout \/ RelaxedUnsat
    \/ Returned

Spec == Init /\ [][Next]_vars

-----------------------------------------------------------------------------
(* What the plan does to the system *)

Selected == {e.pkg : e \in {x \in plan : x.action # "remove"}}
Rebuilt == {e.pkg : e \in {x \in plan : x.action \notin {"remove", "keep"}}}
SameSlot(p, q) == NameOf[p] = NameOf[q] /\ SlotOf[p] = SlotOf[q]

\* The packages after the plan is carried out: those of the plan, and the
\* installed ones that it neither replaces nor removes.
SystemAfter ==
    Selected \cup {q \in inst.installed :
                     /\ [pkg |-> q, action |-> "remove"] \notin plan
                     /\ \A p \in Selected : ~SameSlot(p, q)}

\* The flag a package has then: a rebuilt one has that of the tree.
FlagAfter(p) == IF p \in Rebuilt THEN inst.use[p] ELSE inst.vdbUse[p]

\* What the ebuild means by a group.
Met(g, S) == \E a \in Range(g.alts) : \E q \in S : Matches(a, q) /\ UseOK(a, FlagAfter(q))

\* Trees in which no any-of alternative has a slot, and VDBs in which every
\* installed package has the flag it has in the tree.
Regular ==
    /\ \A p \in Pkgs : \A g \in Deps(p) : \A a \in Range(g.alts) : g.or => a.slot = AnySlot
    /\ \A p \in inst.installed : inst.vdbUse[p] = inst.use[p]

TypeOK ==
    /\ pc \in {"load", "collect", "forced", "explain", "relaxed", "done", "unsat", "failed"}
    /\ roots \subseteq [pkg : Pkgs, req : Requests]
    /\ loaded \subseteq Names /\ explored \subseteq Pkgs /\ dead \subseteq Pkgs
    /\ clauses \subseteq [not : SUBSET Pkgs, some : SUBSET Pkgs,
                          src : {"root", "at-most-one", "implication", "prohibit", "conflict"}]
    /\ plan \subseteq [pkg : Pkgs, action : {"install", "upgrade", "downgrade", "reinstall",
                                             "keep", "remove", "newslot"}]

\* Resolve, for the caller of the plan: whatever model the SAT solver returns,
\* a package that is built finds its dependencies in the system the plan
\* leads to, except the build-time ones of a package that is only built again;
\* every root that is not masked is there; and no slot the plan fills is filled twice.
PlanSound ==
    pc = "done" /\ Regular =>
        /\ \A p \in Rebuilt : \A g \in Deps(p) :
              Met(g, SystemAfter) \/ (g.build /\ p \in Installed /\ ~opts.newUse)
        /\ \A x \in roots : Acceptable(x.pkg) => \E p \in Selected : Matches(x.req, p)
        /\ \A p \in Selected : \A q \in SystemAfter : SameSlot(p, q) => p = q

BlockedApart(S) ==
    pc = "done" /\ ~opts.emptyTree =>
        \A p \in (Selected \cap S) \ inst.installed : \A a \in inst.blocks[p] :
            \A q \in SystemAfter \ {p} : ~Matches(a, q)

\* collectDependencies, addPackageConstraints and addRemovedPackages: what a
\* package that collectDependencies has visited and that is newly installed
\* blocks is not in the system after the plan; if it was installed, the plan
\* removes or replaces it.
BlockersHonoured == BlockedApart(explored)

\* Not true of the code: a version that is a candidate only because an
\* installed one satisfies the dependency is not visited, what it blocks has
\* no SAT variable, and a plan with that version leaves both installed.
BlockersAlwaysHonoured == BlockedApart(Pkgs)

\* The sets of packages a user would accept as an answer, by the meaning of
\* the tree alone.
Available == {p \in Pkgs : Acceptable(p) \/ p \in Installed}
Answers ==
    {s \in SUBSET Available :
        /\ \A x \in roots : \E p \in s : Matches(x.req, p)
        /\ \A p, q \in s : SameSlot(p, q) => p = q
        /\ \A p \in s :
             /\ \A g \in {h \in Deps(p) : ~(h.build /\ InstalledSame(p))} :
                   \E a \in Range(g.alts) : \E q \in s : Matches(a, q) /\ UseOK(a, Flag(q))
             /\ \A a \in inst.blocks[p] : \A q \in s \ {p} : ~Matches(a, q)}

\* collectDependencies reaches all that matters when it looks at everything:
\* with --deep or --emptytree, when the installed packages are still in the
\* tree, Resolve reports failure only if there is no answer, and departs from
\* the preferred versions of the roots only if no answer has them.
PreferredWhenPossible ==
    /\ pc \in {"done", "unsat"}
    /\ Regular /\ (opts.deep \/ opts.emptyTree)
    /\ \A p \in Installed : Acceptable(p)
    /\ \A x \in roots : Acceptable(x.pkg)
    => /\ pc = "unsat" => Answers = {}
       /\ pc = "done" /\ ~(Preferred \subseteq Selected) => \A s \in Answers : ~(Preferred \subseteq s)

\* ExplainWhyUNSAT never blames a package that could have been selected: a
\* package the tracer calls impossible is in no model.
DeadIsImpossible == dead # {} => \A s \in Models(clauses) : s \cap dead = {}

\* What Resolve answers is true: the plan works, and the explanation of a failure
\* names only packages that no plan could have.
AnswerTrue == PlanSound /\ DeadIsImpossible

\* Not true of the code: "For exact matches (=), we respect the user's explicit
\* request", every requested atom that Resolve does not report as skipped is in the plan.
RequestsHonoured ==
    pc = "done" =>
        \A i \in DOMAIN inst.request :
            loadPackageFromAtom(inst.request[i]).status = "ok" =>
                \E p \in SystemAfter : Matches(inst.request[i], p)

-----------------------------------------------------------------------------
(* The inductive invariant of the proofs *)

\* The roots answer their atoms.
RootsMatch ==
    /\ pc = "load" => todo \in Seq(Requests)
    /\ \A x \in roots : Matches(x.req, x.pkg)

\* What collectDependencies has visited is closed: the names a visited package
\* mentions are loaded, the candidates of what it follows, and those of the
\* roots, are visited or due.
Visiting ==
    /\ pc \in {"load", "failed"} => explored = {}
    /\ pc \notin {"load", "failed"} =>
        /\ todo \cup explored \subseteq {p \in Pkgs : Acceptable(p) /\ NameOf[p] \in loaded}
        /\ RootNames \subseteq loaded
        /\ \A q \in Pkgs : Acceptable(q) /\ NameOf[q] \in RootNames => q \in explored \cup todo
        /\ \A p \in explored :
              /\ Mentioned(p) \subseteq loaded
              /\ \A q \in Pkgs : \A a \in Followed(p) :
                    Acceptable(q) /\ a.name = NameOf[q] => q \in explored \cup todo

Encoded ==
    pc \in {"forced", "explain", "relaxed", "done", "unsat"} => todo = {} /\ clauses = AllClauses

\* Each phase is left with a model or because it has none.
Answered ==
    /\ dead # {} => pc \in {"explain", "relaxed", "done", "unsat"}
    /\ pc \in {"explain", "relaxed", "unsat"} => Models(Forced) = {}
    /\ pc = "unsat" => Models(clauses) = {}
    /\ pc = "done" =>
          \E s \in Models(clauses) :
              plan = PlanOf(s) /\ (s \in Models(Forced) \/ Models(Forced) = {})

IndInv ==
    /\ inst \in Instances /\ TypeOK
    /\ RootsMatch /\ Visiting /\ Encoded /\ Answered /\ DeadIsImpossible
=============================================================================
