---------------------------- MODULE MCSolverAids ----------------------------
(***************************************************************************)
(* The aids of the solver: every graph of three packages and a family of   *)
(* graphs of five, with their maps iterated in several orders; collisions  *)
(* of two versions with conditional parents; and depclean on every small   *)
(* system of three names, one of them in two slots.                        *)
(***************************************************************************)
EXTENDS MCBinaries, SolverAids

GraphNode(n) == [name |-> n, base |-> n, slot |-> "0", sub |-> "", ver |-> 1, use |-> <<>>]
Edge(a, b) == [from |-> a, to |-> b, vc |-> <<>>, cond |-> <<>>]
NodeRank == [n \in {"a", "b", "c", "d", "e"} |-> CASE n = "a" -> 1 [] n = "b" -> 2 [] n = "c" -> 3 [] n = "d" -> 4 [] OTHER -> 5]
InRank(S) == SetToSortSeq(S, LAMBDA a, b : NodeRank[a] < NodeRank[b])
\* The graph of these pairs, the edges of a node in the order of its successors.
GraphInput(names, roots, pairs) ==
    LET byNode(n) == LET to == InRank({p[2] : p \in {q \in pairs : q[1] = n}}) IN [i \in DOMAIN to |-> Edge(n, to[i])]
        order == InRank(names)
    IN GraphOf([i \in DOMAIN order |-> GraphNode(order[i])], roots, FlattenSeq([i \in DOMAIN order |-> byNode(order[i])]))
Three == {"a", "b", "c"}
Orders3 == {<<"a", "b", "c">>, <<"c", "b", "a">>, <<"b", "c", "a">>}
SmallGraphs == {GraphInput(Three, r, p) : r \in {{"a"}, {"a", "b"}, {}}, p \in SUBSET (Three \X Three)}
Spine == {<<"a", "b">>, <<"b", "c">>, <<"c", "d">>, <<"c", "e">>}
BackEdges == {<<"d", "a">>, <<"d", "b">>, <<"e", "a">>, <<"e", "c">>, <<"c", "a">>, <<"d", "e">>}
LargeGraphs == {GraphInput({"a", "b", "c", "d", "e"}, {"a"}, Spine \cup p) : p \in SUBSET BackEdges}

\* Two versions of x in one slot, needed by u and v, either under a condition.
XName(v) == IF v = 1 THEN "x1" ELSE "x2"
CollidingX(v, sub) == [name |-> XName(v), base |-> "x", slot |-> "0", sub |-> sub, ver |-> v, use |-> <<>>]
NeedsX(n, use) == [GraphNode(n) EXCEPT !.use = use]
ParentEdge(n, v, vc, cond) == [from |-> n, to |-> XName(v), vc |-> vc, cond |-> cond]
NoCondition == <<>>
FlagStates == {<<>>, "f" :> TRUE, "f" :> FALSE}
FConditions == {NoCondition, <<[f |-> "f", on |-> TRUE]>>, <<[f |-> "f", on |-> FALSE]>>}
CollisionGraphs ==
    {GraphOf(<<NeedsX("u", s), NeedsX("v", t), CollidingX(1, "1"), CollidingX(2, sub)>>, {"u", "v"},
             <<ParentEdge("u", 1, k, c), ParentEdge("v", 2, l, d)>>) :
        s \in FlagStates, t \in FlagStates, sub \in {"1", "2"}, k \in {<<>>, <<{1}>>, <<{1, 2}>>}, l \in {<<>>, <<{2}>>},
        c \in FConditions, d \in FConditions}

System3 == {"app", "lib", "base"}
InstalledAs(n, slot, v, deps) == [name |-> n, slot |-> slot, ver |-> v, deps |-> deps]
DepcleanSystems ==
    {<<InstalledAs("app", "0", 1, a), InstalledAs("lib", "0", 1, l), InstalledAs("base", "0", 1, b)>> :
        a \in SUBSET System3, l \in SUBSET System3, b \in SUBSET {"app", "lib"}}
      \cup {<<InstalledAs("lib", "0", 1, l), InstalledAs("app", "0", 1, {"lib"}), InstalledAs("lib", "2", 2, m)>> :
              l \in SUBSET System3, m \in SUBSET System3}

AidInputs ==
    [kind : {"depgraph"}, graph : SmallGraphs, order : Orders3]
      \cup [kind : {"depgraph"}, graph : LargeGraphs, order : {<<"a", "b", "c", "d", "e">>, <<"c", "e", "d", "b", "a">>}]
      \cup [kind : {"collision"}, graph : CollisionGraphs, order : {<<1, 2>>, <<2, 1>>}]
      \cup [kind : {"flags"}, own : SeqOf({On("f"), Off("f"), On("g")}, 2), global : FlagStates,
            words : {<<>>, <<On("f")>>, <<Off("f")>>, <<On("f"), Off("g")>>}]
      \cup [kind : {"depclean"}, list : DepcleanSystems, world : SUBSET {"app", "lib"}, system : {{}, {"base"}},
            exclude : {{}, {"lib"}}, includeSystem : BOOLEAN, fresh : BOOLEAN, fails : 0 .. 2]

Analyse ==
    /\ input.kind = "depgraph" /\ answer = NoAnswer
    /\ LET g == CalculateDepths(input.graph)
           solution(h) == [graph |-> h, meta |-> <<>>, score |-> 0]
           w == Weights("balanced")
           ranked == RankSolutions(<<solution(g), solution(PruneTransitiveDeps(g))>>, w, input.order)
       IN answer' = [kind |-> "depgraph", depth |-> g.depth, byDepth |-> GetPackagesByDepth(g),
                     first |-> DetectCycles(g, input.order), all |-> GetAllCycles(g, input.order, NodeRank),
                     pruned |-> PruneTransitiveDeps(g), best |-> ranked[1].graph, valid |-> FilterValidSolutions(ranked)]
    /\ UNCHANGED input

Untangle ==
    /\ input.kind = "collision" /\ answer = NoAnswer
    /\ LET g == input.graph
           ps == [i \in 1 .. 2 |-> g.nodes[XName(input.order[i])]]
           entries == ProcessCollisions(g, <<ps>>)
           rank == [n \in {"u", "v"} |-> IF n = "u" THEN 1 ELSE 2]
       IN answer' = [kind |-> "collision", grouped |-> Range(ps) \in groupPackagesBySlot(g), type |-> determineCollisionType(g, ps),
                     solved |-> ResolveCollision(g, ps), conflicts |-> DetectConflicts(g),
                     file |-> WriteAutounmask(WriteAutounmask(<<>>, entries, rank), entries, rank)]
    /\ UNCHANGED input

DecideFlags ==
    /\ input.kind = "flags" /\ answer = NoAnswer
    /\ answer' = [kind |-> "flags", taken |-> FilterDependenciesByUseFlags(input.own, input.global, <<[cond |-> input.words]>>) # <<>>,
                  flags |-> ResolveUseFlagsForPackage(input.own, input.global, {"f", "g"})]
    /\ UNCHANGED input

Depclean ==
    /\ input.kind = "depclean" /\ answer = NoAnswer
    /\ LET list == IF input.fresh THEN [i \in DOMAIN input.list |-> loadPackage(input.list[i])] ELSE input.list
           orphans == Calculate(list, loadWorldSet(input.world, input.system, input.includeSystem), input.exclude)
           todo == SetToSeq({[name |-> o.package.name, ver |-> o.package.ver] : o \in orphans})
       IN answer' = [kind |-> "depclean", orphans |-> orphans, left |-> executeDepclean(Range(input.list), todo, input.fails)]
    /\ UNCHANGED input

-----------------------------------------------------------------------------
(* Reference definitions *)

Succ(g, n) == {g.edges[i].to : i \in {j \in DOMAIN g.edges : g.edges[j].from = n}}
\* Nodes that can be reached from S in exactly k steps.
StepsFrom(g, S, k) ==
    LET at[i \in 0 .. k] == IF i = 0 THEN S ELSE UNION {Succ(g, n) : n \in at[i - 1]} IN at[k]
Distance(g, n) ==
    LET ks == {k \in 0 .. Cardinality(DOMAIN g.nodes) : n \in StepsFrom(g, Range(g.roots), k)}
    IN IF ks = {} THEN -1 ELSE Min(ks)
OnCycle(g, n) == \E k \in 1 .. Cardinality(DOMAIN g.nodes) : n \in StepsFrom(g, {n}, k)
IsCycle(g, c) == c # <<>> /\ \A i \in DOMAIN c : c[(i % Len(c)) + 1] \in Succ(g, c[i])

\* What the system needs of S, over any number of dependencies.
NeedsOf(list, S) ==
    LET at[i \in 0 .. 3] == IF i = 0 THEN S ELSE at[i - 1] \cup UNION {list[j].deps : j \in {k \in DOMAIN list : list[k].name \in at[i - 1]}}
    IN at[3]
OneSlotEach(list) == \A i, j \in DOMAIN list : list[i].name = list[j].name => i = j

-----------------------------------------------------------------------------
\* The depths are the distances from the roots; a cycle is reported exactly when
\* there is one, even where no root leads, and what is reported first is a cycle,
\* whatever order the map has; all cycles together are none only when there is
\* none; pruning leaves the part that the roots need, whole, and, when there is a
\* root, is never ranked behind the graph that it was made from.
GraphAnalysed ==
    answer.kind = "depgraph" =>
        LET g == input.graph
            needed == {n \in DOMAIN g.nodes : Distance(g, n) # -1}
            cyclic == \E n \in DOMAIN g.nodes : OnCycle(g, n)
        IN /\ answer.depth = [n \in DOMAIN g.nodes |-> Distance(g, n)]
           /\ UNION {answer.byDepth[d] : d \in DOMAIN answer.byDepth} = needed
           /\ (answer.first # <<>>) = cyclic /\ (answer.all # <<>>) = cyclic
           /\ cyclic => IsCycle(g, answer.first[1])
           /\ DOMAIN answer.pruned.nodes = needed
           /\ \A i \in DOMAIN g.edges : g.edges[i].from \in needed => g.edges[i] \in Range(answer.pruned.edges)
           /\ g.roots # <<>> => answer.best = answer.pruned \/ (answer.best.edges = g.edges /\ needed = DOMAIN g.nodes)
           /\ ~cyclic => Len(answer.valid) = 2

\* Refuted: cycle_detector.go:134 "provides complete information": a path
\* shares its array with the cycles cut out of it, which later siblings overwrite.
ReportedCyclesExist == answer.kind = "depgraph" => \A i \in DOMAIN answer.all : IsCycle(input.graph, answer.all[i])

\* Refuted: slot_collision.go:417 "USE flag changes needed for all parents": a change
\* that is proposed takes away the dependency on the package that is not chosen.
ProposalSeparates ==
    answer.kind = "collision" /\ answer.solved # <<>> =>
        LET s == answer.solved[1]
            g == input.graph
            after(e) == IF \E i \in DOMAIN s.changes : s.changes[i].name = e.from
                        THEN [f \in DOMAIN g.nodes[e.from].use |-> s.changes[1].on] ELSE g.nodes[e.from].use
            active(e) == e.cond = <<>> \/ (e.cond[1].f \in DOMAIN after(e) /\ after(e)[e.cond[1].f] = e.cond[1].on)
        IN \A i \in DOMAIN g.edges : g.edges[i].to # s.package.name => ~active(g.edges[i])

\* Refuted: autounmask.go appends what is there already.
WrittenOnce == answer.kind = "collision" => \A i, j \in DOMAIN answer.file : answer.file[i] = answer.file[j] => i = j

\* Refuted: use_resolver.go:71 "all other layers must call this function": one layer
\* decides by the first word and the other by the last.
OneAnswerForFlags ==
    answer.kind = "flags" => answer.taken = \A i \in DOMAIN input.words : answer.flags[input.words[i].f] = input.words[i].on

\* With the dependencies known and one slot of each name, depclean removes only
\* packages that nothing selected needs, over any number of dependencies; when no
\* removal fails it leaves none of them; and what is left has all that it had.
OrphansAreUnneeded ==
    answer.kind = "depclean" /\ ~input.fresh /\ OneSlotEach(input.list) =>
        LET start == input.world \cup input.exclude \cup (IF input.includeSystem THEN input.system ELSE {})
            needed == NeedsOf(input.list, start)
            kept == {i.name : i \in answer.left}
            had == {input.list[k].name : k \in DOMAIN input.list}
        IN /\ had \cap needed \subseteq kept
           /\ input.fails = 0 => kept = had \cap needed
           /\ \A i \in answer.left : i.name \in needed => i.deps \cap had \subseteq kept

\* What cycle_detector.go, optimizer.go and depclean.go say of a graph is true of it.
AidsTellTruth == GraphAnalysed /\ OrphansAreUnneeded

\* Refuted: docs/CLI_REFERENCE.md "Depclean removes packages not in @world/@system
\* that no other package depends on": the VarDB keeps no dependencies, so a later
\* process finds that nobody needs anything.
DepcleanKeepsNeeded ==
    answer.kind = "depclean" /\ input.includeSystem =>
        {input.list[k].name : k \in DOMAIN input.list} \cap NeedsOf(input.list, input.world \cup input.system)
          \subseteq {i.name : i \in answer.left}

-----------------------------------------------------------------------------
AidsNext == BinariesNext \/ Analyse \/ Untangle \/ DecideFlags \/ Depclean
AidsInit == (Init \/ PolicyInit \/ (input \in BinhostInputs \cup AidInputs /\ answer = NoAnswer))
AidsSpec == AidsInit /\ [][AidsNext]_vars
=============================================================================
