----------------------------- MODULE MCLanguage -----------------------------
(***************************************************************************)
(* The pure algorithms of VersionCompare, SpecStrings and KahnSort on      *)
(* every small input: two versions, a dependency string, a REQUIRED_USE    *)
(* expression or a build graph.                                            *)
(***************************************************************************)
EXTENDS VersionCompare, SpecStrings, KahnSort, FiniteSetsExt

CONSTANTS FullTrees     \* FALSE: operator groups that the code is meant for

VARIABLES input, answer
vars == <<input, answer>>

-----------------------------------------------------------------------------
(* Versions: two components, zeros in every position, a letter, up to two     *)
(* suffixes and a revision.                                                   *)

Ver(c, l, s, r) == [comps |-> c, letter |-> l, sufs |-> s, rev |-> r]
Suf(t, n) == [type |-> t, num |-> n]
Numbers == {<<0>>, <<1>>, <<2>>, <<1, 0>>, <<0, 1>>, <<0, 1, 0>>, <<0, 0>>}
SuffixLists == {<<>>, <<Suf("rc", 0)>>, <<Suf("rc", 2)>>, <<Suf("p", 0)>>,
               <<Suf("rc", 0), Suf("p", 1)>>, <<Suf("rc", 0), Suf("alpha", 1)>>, <<Suf("p", 0), Suf("p", 0)>>}
InputVersions ==
    {Ver(<<<<1>>, n>>, 0, <<>>, 0) : n \in Numbers}
      \cup {Ver(<<<<1>>, n, m>>, 0, <<>>, 0) : n \in {<<0>>, <<1>>}, m \in {<<0>>, <<1>>, <<0, 2>>}}
      \cup {Ver(<<n>>, 0, <<>>, r) : n \in Numbers, r \in {0, 1}}
      \cup {Ver(<<<<1>>, <<0>>>>, l, s, r) : l \in 0..2, s \in SuffixLists, r \in {0, 2}}

-----------------------------------------------------------------------------
(* Expressions: up to two items, groups of up to two, nested three deep.      *)

Leaf(v) == [k |-> "leaf", v |-> v, kids |-> <<>>]
Not(v) == [k |-> "not", v |-> v, kids |-> <<>>]
Group(k, kids) == [k |-> k, v |-> "", kids |-> kids]
When(k, f, kids) == [k |-> k, v |-> f, kids |-> kids]

Kids(S) == {<<e>> : e \in S} \cup {<<e, f>> : e \in S, f \in S}
Leaves == {Leaf("a"), Leaf("b")}
Conds(K) == {When(k, f, kids) : k \in {"if", "unless"}, f \in {"f"}, kids \in K}
            \cup {When("if", "g", kids) : kids \in K}

Simple == Leaves \cup Conds({<<Leaf("b")>>})
\* An item of a dependency string: a group of leaves and conditionals, under
\* up to one more conditional or all-of group.
DepGroups == {Group(k, kids) : k \in {"any", "all"}, kids \in Kids(Simple)}
                \cup Conds(Kids(Leaves)) \cup Conds({<<e>> : e \in Conds({<<Leaf("a")>>})})
DepItems == Leaves \cup DepGroups \cup Conds({<<g>> : g \in DepGroups})
              \cup {Group("all", <<Leaf("c"), g>>) : g \in DepGroups}
\* Groups within any-of groups, which the parser was not written for.
Nested == {Group("any", <<Leaf("a"), Group(k, <<Leaf("b"), Leaf("c")>>)>>) : k \in {"all", "any"}}

FlagLeaves == {Leaf("a"), Not("b"), Leaf("c")}
UseGroups == {Group(k, kids) : k \in {"any", "one", "most"},
                kids \in {<<e>> : e \in FlagLeaves} \cup {<<e, f>> : e \in FlagLeaves, f \in FlagLeaves \cup
                          {Group("all", <<Leaf("b"), Leaf("c")>>), Group("all", <<Group("most", <<Leaf("a"), Leaf("c")>>)>>)}}
                          \cup {<<Leaf("a"), Not("b"), Leaf("c")>>}}
UseItems == FlagLeaves \cup UseGroups \cup {When(k, "a", <<g>>) : k \in {"if", "unless"}, g \in UseGroups}
NestedUse ==
    {Group(k, <<Leaf("a"), e>>) : k \in {"any", "one", "most"},
        e \in {Group(o, <<Leaf("b"), Leaf("c")>>) : o \in {"any", "one", "most"}} \cup {When("if", "b", <<Leaf("c")>>)}}

Inputs ==
    [kind : {"version"}, v : InputVersions, w : InputVersions]
      \cup [kind : {"depend"}, e : {<<x>> : x \in DepItems} \cup {<<x, y>> : x \in Leaves \cup Conds({<<Leaf("c")>>}), y \in DepGroups}
                                   \cup (IF FullTrees THEN {<<x>> : x \in Nested} ELSE {})]
      \cup [kind : {"use"}, e : {<<x>> : x \in UseItems} \cup {<<x, y>> : x \in {Not("a")}, y \in UseItems}
                                   \cup (IF FullTrees THEN {<<x>> : x \in NestedUse} ELSE {})]

\* Up to four AddDependency calls between three tasks.
Tasks == 1..3
InputGraphs == BoundedSeq(Tasks \X Tasks, 4)

FlagSets == SUBSET {"f", "g"}
Atoms == {"a", "b", "c"}
NoAnswer == [kind |-> "none"]

Init ==
    /\ input \in Inputs \cup [kind : {"graph"}, edges : InputGraphs]
    /\ answer = NoAnswer

\* CompareVersions
Compare ==
    /\ input.kind = "version" /\ answer = NoAnswer
    /\ answer' = [kind |-> "version", sign |-> CompareVersions(input.v, input.w)]
    /\ UNCHANGED input

Parse ==
    /\ input.kind = "depend" /\ answer = NoAnswer
    /\ answer' = [kind |-> "depend", deps |-> ParseDependencies(input.e)]
    /\ UNCHANGED input

Validate ==
    /\ input.kind = "use" /\ answer = NoAnswer
    /\ answer' = [kind |-> "use", ok |-> {use \in SUBSET Atoms : ValidateRequiredUse(input.e, use)}]
    /\ UNCHANGED input

Sort ==
    /\ input.kind = "graph" /\ answer = NoAnswer
    /\ \E first \in FirstQueues(Tasks, input.edges) :
        answer' = [kind |-> "graph", sorted |-> topologicalSort(Tasks, input.edges, first)]
    /\ UNCHANGED input

Done == answer # NoAnswer /\ UNCHANGED vars

Next == Compare \/ Parse \/ Validate \/ Sort \/ Done
Spec == Init /\ [][Next]_vars

-----------------------------------------------------------------------------
\* CompareVersions follows the PMS for versions with the same number of
\* components, both or neither with a letter, and no zero before the first
\* number; leading zeros, suffixes and revisions are free.
ComparesAsPMS ==
    answer.kind = "version" =>
        LET v == input.v
            w == input.w
        IN /\ Len(v.comps) = Len(w.comps)
           /\ (v.letter = 0) = (w.letter = 0)
           /\ ~HasLeadingZero(v.comps[1]) /\ ~HasLeadingZero(w.comps[1])
           => answer.sign = PMSCompare(v, w)

\* The flat list the parser makes of a dependency string accepts exactly the
\* sets of packages that the string accepts under PMS 8.2, for every USE, when
\* any-of groups offer single packages; an any-of group that USE empties
\* counts as matched.
DependenciesAsPMS ==
    answer.kind = "depend" /\ (\A i \in DOMAIN input.e : FlatAnyOf(input.e[i])) =>
        \A use \in FlagSets : \A S \in SUBSET Atoms :
            Accepts(answer.deps, use, S) <=> AllMatched(input.e, use, S, 6)

\* The validator accepts exactly the USE that REQUIRED_USE accepts under PMS
\* 8.2, when operator groups hold flags and all-of groups.
RequiredUseAsPMS ==
    answer.kind = "use" /\ (\A i \in DOMAIN input.e : PlainOperators(input.e[i])) =>
        answer.ok = {use \in SUBSET Atoms : AllMatched(input.e, use, use, 8)}

\* Versions, dependency strings and REQUIRED_USE mean what the PMS says, where the
\* three properties above say so.
LanguageAsPMS == ComparesAsPMS /\ DependenciesAsPMS /\ RequiredUseAsPMS

\* Whatever the multigraph and the order of the map, topologicalSort reports a
\* cycle if and only if there is one (repeated edges and self-dependencies
\* included), and what it has sorted until then is in topological order.
SortsOrFindsCycle ==
    answer.kind = "graph" =>
        /\ IsTopologicalOrder(answer.sorted.order, input.edges)
        /\ answer.sorted.fails <=> Cyclic(Tasks, input.edges)

\* "Any-of groups || ( ): Full": the same for every dependency string.
AnyOfGroupsFull ==
    answer.kind = "depend" =>
        \A use \in FlagSets : \A S \in SUBSET Atoms :
            Accepts(answer.deps, use, S) <=> AllMatched(input.e, use, S, 6)

\* "Exactly-one-of ^^ ( ): Full", "At-most-one-of ?? ( ): Full"
OperatorGroupsFull ==
    answer.kind = "use" => answer.ok = {use \in SUBSET Atoms : AllMatched(input.e, use, use, 8)}

\* "Implement all 7 algorithms exactly as specified"
AllAlgorithmsExact == answer.kind = "version" => answer.sign = PMSCompare(input.v, input.w)
=============================================================================
