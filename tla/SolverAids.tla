----------------------------- MODULE SolverAids -----------------------------
(***************************************************************************)
(* What is done with packages around the solver (internal/solver): the     *)
(* dependency graph with its depths, cycles and conflicts, the slot        *)
(* collisions and the USE changes proposed for them, the ranking and       *)
(* pruning of solutions, the flags of conditional dependencies, and which  *)
(* installed packages depclean takes for orphans.                          *)
(*                                                                         *)
(* A package is a record: name, base (the name without a version), slot,   *)
(* sub, ver and use, the state of each flag that it has.  A constraint     *)
(* (vc) is a sequence of at most one set, the versions that it accepts; a  *)
(* condition (cond) a sequence of at most one [f, on].                     *)
(***************************************************************************)
EXTENDS Integers, Sequences, FiniteSets, SequencesExt, FiniteSetsExt

-----------------------------------------------------------------------------
(* DependencyGraph *)

NewDependencyGraph == [nodes |-> <<>>, edges |-> <<>>, roots |-> <<>>, depth |-> <<>>]

\* A second package of the same name is left out.
AddNode(g, p, isRoot) ==
  LET add(f, x) == [n \in DOMAIN f \cup {p.name} |-> IF n = p.name THEN x ELSE f[n]]
  IN IF p.name \in DOMAIN g.nodes THEN g
     ELSE [g EXCEPT !.nodes = add(@, p), !.depth = add(@, IF isRoot THEN 0 ELSE -1),
                    !.roots = IF isRoot THEN Append(@, p.name) ELSE @]
AddEdge(g, e) ==
  IF {e.from, e.to} \subseteq DOMAIN g.nodes THEN [g EXCEPT !.edges = Append(@, e)] ELSE g
GraphOf(packages, roots, edges) ==
  FoldLeft(AddEdge, FoldLeft(LAMBDA g, p : AddNode(g, p, p.name \in roots), NewDependencyGraph, packages), edges)

Dependencies(g, n) == SelectSeq(g.edges, LAMBDA e : e.from = n)
DependentsOf(g, n) == SelectSeq(g.edges, LAMBDA e : e.to = n)

\* CalculateDepths: a node whose depth is 0 keeps it; the others are relaxed
\* breadth first from the roots.
RECURSIVE RelaxDepths(_, _, _)
RelaxDepths(g, depth, queue) ==
  IF queue = <<>> THEN depth
  ELSE LET n == Head(queue)
           Step(acc, e) == IF acc.depth[e.to] = -1 \/ acc.depth[n] + 1 < acc.depth[e.to]
                           THEN [depth |-> [acc.depth EXCEPT ![e.to] = acc.depth[n] + 1], queue |-> Append(acc.queue, e.to)]
                           ELSE acc
           after == FoldLeft(Step, [depth |-> depth, queue |-> Tail(queue)], Dependencies(g, n))
       IN RelaxDepths(g, after.depth, after.queue)
CalculateDepths(g) ==
  [g EXCEPT !.depth = RelaxDepths(g, [n \in DOMAIN @ |-> IF @[n] = 0 THEN 0 ELSE -1], g.roots)]
\* Nodes that are not reached are in no group.
GetPackagesByDepth(g) ==
  LET depths == {g.depth[n] : n \in DOMAIN g.depth} \ {-1}
  IN [d \in depths |-> {n \in DOMAIN g.depth : g.depth[n] = d}]

-----------------------------------------------------------------------------
(* Cycles.  A path is a Go slice: an array on a heap, and a length.  append *)
(* writes into the array while its capacity lasts and copies it after that, *)
(* so two paths, and a cycle cut out of one, may share an array.            *)

Capacity(len) == CHOOSE c \in {0, 1, 2, 4, 8} : len <= c /\ \A d \in {0, 1, 2, 4, 8} : len <= d => c <= d
EmptyPath == [array |-> 0, len |-> 0, cap |-> 0]
Elements(heap, s) == IF s.len = 0 THEN <<>> ELSE SubSeq(heap[s.array], 1, s.len)
\* append: the heap with the element, and the longer slice
AppendTo(heap, s, x) ==
  IF s.len < s.cap
  THEN [heap |-> [heap EXCEPT ![s.array] = SubSeq(@, 1, s.len) \o <<x>> \o SubSeq(@, s.len + 2, Len(@))],
        slice |-> [s EXCEPT !.len = @ + 1]]
  ELSE [heap |-> Append(heap, Append(Elements(heap, s), x)),
        slice |-> [array |-> Len(heap) + 1, len |-> s.len + 1, cap |-> Capacity(s.len + 1)]]

\* extractCycle: from where the node is first on the path
extractCycle(heap, s, n) ==
  [array |-> s.array, from |-> SelectInSeq(Elements(heap, s), LAMBDA m : m = n), to |-> s.len]

\* dfsDetectCycle stops at the first cycle; dfsCollectCycles notes it and goes on.
RECURSIVE Dfs(_, _, _, _, _)
Dfs(g, st, n, path, all) ==
  CASE ~all /\ st.cycles # <<>> -> st
    [] st.state[n] = "visited" -> st
    [] st.state[n] = "visiting" -> [st EXCEPT !.cycles = Append(@, extractCycle(st.heap, path, n))]
    [] OTHER ->
         LET here == AppendTo(st.heap, path, n)
             begun == [st EXCEPT !.state[n] = "visiting", !.heap = here.heap]
             after == FoldLeft(LAMBDA s, e : Dfs(g, s, e.to, here.slice, all), begun, Dependencies(g, n))
         IN IF ~all /\ after.cycles # <<>> THEN after ELSE [after EXCEPT !.state[n] = "visited"]
Unvisited(g) == [state |-> [n \in DOMAIN g.nodes |-> "unvisited"], heap |-> <<>>, cycles |-> <<>>]
CyclesFrom(g, starts, all) ==
  LET end == FoldLeft(LAMBDA s, n : Dfs(g, s, n, EmptyPath, all), Unvisited(g), starts)
  IN [i \in DOMAIN end.cycles |-> LET c == end.cycles[i] IN SubSeq(end.heap[c.array], c.from, c.to)]

\* DetectCycles: the roots first, then the map of the nodes in any order.
DetectCycles(g, order) == CyclesFrom(g, g.roots \o order, FALSE)
HasCycles(g, order) == DetectCycles(g, order) # <<>>

\* normalizeCycle: begin with the least name; deduplicateCycles: the first of each.
normalizeCycle(c, rank) ==
  LET at == CHOOSE i \in DOMAIN c : \A j \in DOMAIN c : rank[c[i]] < rank[c[j]] \/ (rank[c[i]] = rank[c[j]] /\ i <= j)
  IN SubSeq(c, at, Len(c)) \o SubSeq(c, 1, at - 1)
deduplicateCycles(cycles, rank) ==
  FoldLeft(LAMBDA acc, c : LET k == normalizeCycle(c, rank) IN IF k \in Range(acc) THEN acc ELSE Append(acc, k), <<>>, cycles)
GetAllCycles(g, order, rank) == deduplicateCycles(CyclesFrom(g, order, TRUE), rank)

-----------------------------------------------------------------------------
(* Conflicts *)

\* Two or more packages of one base name in one slot.
SameSlot(g, p) == {n \in DOMAIN g.nodes : g.nodes[n].base = p.base /\ g.nodes[n].slot = p.slot}
detectSlotConflicts(g) == {S \in {SameSlot(g, g.nodes[n]) : n \in DOMAIN g.nodes} : Cardinality(S) > 1}

\* A node with two or more constraints that its version does not all satisfy.
detectVersionConflicts(g) ==
  {n \in DOMAIN g.nodes :
     LET said == SelectSeq(DependentsOf(g, n), LAMBDA e : e.vc # <<>>)
     IN Len(said) > 1 /\ \E i \in DOMAIN said : g.nodes[n].ver \notin said[i].vc[1]}
DetectConflicts(g) == Cardinality(detectSlotConflicts(g)) + Cardinality(detectVersionConflicts(g))

-----------------------------------------------------------------------------
(* Slot collisions.  The packages of a collision come in any order.        *)

groupPackagesBySlot(g) == {{g.nodes[n] : n \in S} : S \in {SameSlot(g, g.nodes[n]) : n \in DOMAIN g.nodes}}

\* collectParentAtoms: the dependents, and the command line for a root
collectParentAtoms(g, p) ==
  LET edges == DependentsOf(g, p.name)
  IN [i \in DOMAIN edges |-> [parent |-> <<g.nodes[edges[i].from]>>, vc |-> edges[i].vc, cond |-> edges[i].cond]]
       \o (IF p.name \in Range(g.roots) THEN <<[parent |-> <<>>, vc |-> <<>>, cond |-> <<>>]>> ELSE <<>>)

\* The first package is compared with the others only.
checkSubslotConflict(ps) == \E i \in 2 .. Len(ps) : ps[i].sub # ps[1].sub /\ ps[i].sub # "" /\ ps[1].sub # ""
checkVersionConflict(g, ps) ==
  \E i, j \in DOMAIN ps : i # j /\
    \E k \in DOMAIN collectParentAtoms(g, ps[i]) :
      LET a == collectParentAtoms(g, ps[i])[k] IN a.vc # <<>> /\ ps[j].ver \notin a.vc[1]
checkUnspecificConflict(g, ps) ==
  \A i \in DOMAIN ps : \A k \in DOMAIN collectParentAtoms(g, ps[i]) :
    LET a == collectParentAtoms(g, ps[i])[k] IN a.vc = <<>> /\ a.cond = <<>>
determineCollisionType(g, ps) ==
  CASE checkSubslotConflict(ps) -> "subslot"
    [] checkVersionConflict(g, ps) -> "version"
    [] checkUnspecificConflict(g, ps) -> "unspecific"
    [] OTHER -> "specific"

\* computeUseFlagChange: the flag of the condition as the condition has it, if
\* the parent has the flag in the other state.
computeUseFlagChange(a) ==
  LET c == a.cond[1]
      p == a.parent[1]
  IN IF c.f \in DOMAIN p.use /\ p.use[c.f] # c.on THEN <<[name |-> p.name, f |-> c.f, on |-> c.on]>> ELSE <<>>
computeRequiredUseChanges(g, ps, chosen) ==
  LET changes(i) == LET atoms == SelectSeq(collectParentAtoms(g, ps[i]), LAMBDA a : a.parent # <<>> /\ a.cond # <<>>)
                    IN FlattenSeq([k \in DOMAIN atoms |-> computeUseFlagChange(atoms[k])])
  IN FlattenSeq([i \in DOMAIN ps |-> IF i = chosen THEN <<>> ELSE changes(i)])
\* ResolveCollision: the first package for which some change is found; no change
\* counts as no solution.
ResolveCollision(g, ps) ==
  LET solving == {i \in DOMAIN ps : computeRequiredUseChanges(g, ps, i) # <<>>}
  IN IF determineCollisionType(g, ps) = "version" \/ solving = {} THEN <<>>
     ELSE <<[package |-> ps[Min(solving)], changes |-> computeRequiredUseChanges(g, ps, Min(solving))]>>

\* Autounmask: the changes of every solved collision, appended to package.use, or
\* to the file grpm in it when it is a directory, each time they are written.
AddFromSolution(entries, solution) ==
  entries \o [i \in DOMAIN solution.changes |-> [atom |-> solution.changes[i].name, f |-> solution.changes[i].f, on |-> solution.changes[i].on]]
ProcessCollisions(g, collisions) ==
  FoldLeft(LAMBDA acc, ps : LET s == ResolveCollision(g, ps) IN IF s = <<>> THEN acc ELSE AddFromSolution(acc, s[1]), <<>>, collisions)
GenerateContent(entries, rank) == SortSeq(entries, LAMBDA a, b : rank[a.atom] < rank[b.atom])
WriteAutounmask(file, entries, rank) == IF entries = <<>> THEN file ELSE file \o GenerateContent(entries, rank)

-----------------------------------------------------------------------------
(* Solutions *)

\* Scores and weights in thousandths.
Weights(strategy) ==
  CASE strategy = "newest-versions" -> [fresh |-> 800, count |-> 100, depth |-> 50]
    [] strategy = "minimal-packages" -> [fresh |-> 200, count |-> 600, depth |-> 150]
    [] strategy = "stable" -> [fresh |-> 100, count |-> 400, depth |-> 200]
    [] OTHER -> [fresh |-> 400, count |-> 300, depth |-> 100]
computeMetadata(g, order) ==
  [total |-> Cardinality(DOMAIN g.nodes), max |-> Max({0} \cup DOMAIN GetPackagesByDepth(g)),
   cycles |-> HasCycles(g, SelectSeq(order, LAMBDA n : n \in DOMAIN g.nodes)), conflicts |-> DetectConflicts(g)]
\* Every package counts as the newest.
computeScore(meta, w) ==
  LET Cap(x, top) == IF x > top THEN top ELSE x
      score == 100000 - 25000 * meta.conflicts - (IF meta.cycles THEN 15000 ELSE 0)
                 - Cap((meta.total * w.count) \div 10, 10 * w.count)
                 - (IF meta.max > 5 THEN 2 * (meta.max - 5) * w.depth ELSE 0)
                 + (IF meta.total > 0 THEN 10 * w.fresh ELSE 0)
  IN IF score < 0 THEN 0 ELSE score
\* RankSolutions analyses those whose score is 0 and sorts; GetBestSolution takes
\* the first.
RankSolutions(solutions, w, order) ==
  LET known == [i \in DOMAIN solutions |->
                  IF solutions[i].score # 0 THEN solutions[i]
                  ELSE [solutions[i] EXCEPT !.meta = <<computeMetadata(solutions[i].graph, order)>>,
                                            !.score = computeScore(computeMetadata(solutions[i].graph, order), w)]]
  IN SortSeq(known, LAMBDA a, b : a.score > b.score)
\* FilterValidSolutions: what is not analysed passes for valid.
FilterValidSolutions(solutions) ==
  SelectSeq(solutions, LAMBDA s : s.meta = <<>> \/ (s.meta[1].conflicts = 0 /\ ~s.meta[1].cycles))

\* PruneTransitiveDeps: breadth first from the roots.  The roots keep depth 0 and
\* the others get none.
RECURSIVE Reached(_, _)
Reached(g, S) ==
  LET more == S \cup {g.edges[i].to : i \in {j \in DOMAIN g.edges : g.edges[j].from \in S}}
  IN IF more = S THEN S ELSE Reached(g, more)
PruneTransitiveDeps(g) ==
  LET keep == Reached(g, Range(g.roots))
  IN [nodes |-> [n \in keep |-> g.nodes[n]], roots |-> g.roots,
      edges |-> SelectSeq(g.edges, LAMBDA e : e.from \in keep /\ e.to \in keep),
      depth |-> [n \in keep |-> IF n \in Range(g.roots) THEN 0 ELSE -1]]

-----------------------------------------------------------------------------
(* UseFlagSolver: own are the words of package.use, global those of make.conf *)

\* The first word about the flag decides.
IsUseFlagEnabled(own, global, f) ==
  LET at == SelectInSeq(own, LAMBDA w : w.f = f)
  IN IF at # 0 THEN own[at].on ELSE f \in DOMAIN global /\ global[f]
EvaluateUseCondition(own, global, words) ==
  \A i \in DOMAIN words : IsUseFlagEnabled(own, global, words[i].f) = words[i].on
FilterDependenciesByUseFlags(own, global, deps) ==
  SelectSeq(deps, LAMBDA d : EvaluateUseCondition(own, global, d.cond))
\* ResolveEffectiveUSE: here the last word decides; flags of package.use that are
\* not in IUSE follow the first.
ResolveUseFlagsForPackage(own, global, iuse) ==
  LET said == {w \in Range(own) : w.f \in iuse}
      last(f) == own[Max({i \in DOMAIN own : own[i].f = f})].on
  IN [f \in iuse \cup {w.f : w \in Range(own)} |->
        IF f \notin iuse THEN own[SelectInSeq(own, LAMBDA w : w.f = f)].on
        ELSE IF \E w \in said : w.f = f THEN last(f) ELSE f \in DOMAIN global /\ global[f]]

-----------------------------------------------------------------------------
(* Depclean.  An installed package: name, slot, ver, deps, the names that   *)
(* its ebuild depends on.                                                   *)

\* VarDBWriter.Write puts CONTENTS, SLOT, USE, CFLAGS, BUILD_TIME, SIZE and EAPI
\* into the entry of a package and none of its dependencies; loadPackage reads
\* what is there.
loadPackage(i) == [i EXCEPT !.deps = {}]

\* buildGraph: one package per name, the last that the map yields.
buildGraph(list) ==
  FoldLeft(LAMBDA g, i : [n \in DOMAIN g \cup {i.name} |-> IF n = i.name THEN i ELSE g[n]], <<>>, list)
GetDependencies(g, n) == IF n \in DOMAIN g THEN g[n].deps ELSE {}
loadWorldSet(selected, system, includeSystem) == IF includeSystem THEN selected \cup system ELSE selected
\* markNeededPackages: from --exclude and @world along the dependencies
\* Mutant: one step along the dependencies.
markNeededPackages_Direct(g, start) == start \cup UNION {GetDependencies(g, n) : n \in start}
RECURSIVE markNeededPackages(_, _)
markNeededPackages(g, start) ==
  LET more == start \cup UNION {GetDependencies(g, n) : n \in start}
  IN IF more = start THEN start ELSE markNeededPackages(g, more)
determineOrphanReason(g, n) == IF \E m \in DOMAIN g : n \in g[m].deps THEN "no longer needed" ELSE "not required by @world"
findOrphans(g, needed) == {[package |-> g[n], reason |-> determineOrphanReason(g, n)] : n \in DOMAIN g \ needed}
Calculate(list, world, exclude) == LET g == buildGraph(list) IN findOrphans(g, markNeededPackages(g, world \cup exclude))
\* executeDepclean: one by one by name and version, until one fails.
executeDepclean(db, orphans, fails) ==
  {i \in db : \A k \in DOMAIN orphans : fails > k \/ fails = 0 => ~(i.name = orphans[k].name /\ i.ver = orphans[k].ver)}
=============================================================================
