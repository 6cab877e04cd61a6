----------------------------- MODULE MCResolver -----------------------------
(* Small trees for Resolver: two versions of a, b and c, where only the      *)
(* versions of c are in different slots, and one of d.                       *)
EXTENDS Resolver, TLC

CONSTANTS a1, a2, b1, b2, c1, c2, d1

MCName == a1 :> "a" @@ a2 :> "a" @@ b1 :> "b" @@ b2 :> "b" @@ c1 :> "c" @@ c2 :> "c" @@ d1 :> "d"
MCVer == a1 :> 1 @@ a2 :> 2 @@ b1 :> 1 @@ b2 :> 2 @@ c1 :> 1 @@ c2 :> 2 @@ d1 :> 1
MCSlot == [p \in {a1, a2, b1, b2, c1, d1} |-> 0] @@ (c2 :> 1)

At(n, v, s, u) == [name |-> n, vers |-> v, slot |-> s, use |-> u]
AnyOf(n) == At(n, {1, 2}, AnySlot, "any")
Only(n, v) == At(n, {v}, AnySlot, "any")
Dep(a) == [alts |-> <<a>>, or |-> FALSE, build |-> FALSE]
BDep(a) == [alts |-> <<a>>, or |-> FALSE, build |-> TRUE]
Or(s) == [alts |-> s, or |-> TRUE, build |-> FALSE]
Req(n, v, e) == [name |-> n, vers |-> v, slot |-> AnySlot, exact |-> e]

Tree(da2, da1, db2, db1, dc2) ==
    a2 :> da2 @@ a1 :> da1 @@ b2 :> db2 @@ b1 :> db1 @@ c2 :> dc2 @@ c1 :> {} @@ d1 :> {}
Trees ==
    {Tree(da2, da1, db2, db1, dc2) :
        da2 \in {{Dep(Only("b", 2))}, {Or(<<Only("b", 2), Only("c", 2)>>)}, {Dep(At("c", {1, 2}, 1, "any")), BDep(AnyOf("b"))}},
        da1 \in {{}, {Dep(AnyOf("b"))}},
        db2 \in {{}, {Dep(At("c", {1, 2}, 1, "any"))}, {Dep(Only("a", 1))}},
        db1 \in {{BDep(Only("c", 2))}},
        dc2 \in {{}, {Dep(Only("b", 1))}, {Dep(AnyOf("d"))}}}

No == [p \in Pkgs |-> {}]
Blocks == {No, [No EXCEPT ![a2] = {Only("b", 1)}], [No EXCEPT ![b2] = {At("c", {1, 2}, 0, "any")}]}
Opt(d, n, u, e) == [deep |-> d, newUse |-> n, update |-> u, emptyTree |-> e]
Opts == {Opt(FALSE, FALSE, FALSE, FALSE), Opt(TRUE, FALSE, FALSE, FALSE), Opt(TRUE, FALSE, TRUE, FALSE),
         Opt(FALSE, TRUE, FALSE, FALSE), Opt(FALSE, FALSE, FALSE, TRUE)}
Off == [p \in Pkgs |-> FALSE]
Visible == [p \in Pkgs |-> "no"]

\* Dependencies and blockers against what is installed, for every option.
Plain ==
    [deps : Trees, blocks : Blocks, use : {Off}, vdbUse : {Off}, repo : {Pkgs}, mask : {Visible},
     installed : {{}, {a1, b1}, {b1, c1}, {a2, b2, c2}}, opts : Opts,
     request : {<<Req("a", {1, 2}, FALSE)>>, <<Req("a", {1, 2}, FALSE), Req("b", {1}, TRUE)>>}]
\* Masks of every kind, requests by name, version and slot, installed
\* packages that the tree has lost.
Masked ==
    [deps : {Tree({Dep(AnyOf("b"))}, {}, {}, {Dep(AnyOf("c"))}, {})}, blocks : {No},
     use : {Off}, vdbUse : {Off}, repo : {Pkgs, Pkgs \ {b1}},
     mask : {[Visible EXCEPT ![a2] = m, ![b2] = n, ![a1] = k] :
               m \in Masks, n \in {"no", "keyword"}, k \in {"no", "mask"}},
     installed : {{}, {a1, b1}, {a2, b1}}, opts : Opts,
     request : {<<Req("a", {1, 2}, FALSE)>>, <<Req("a", {2}, TRUE)>>, <<Req("a", {1}, FALSE)>>,
                <<Req("a", {2}, TRUE), Req("a", {1}, TRUE)>>, <<Req("b", {3}, TRUE)>>}]
\* USE dependencies, with flags of the VDB that agree with the tree or not,
\* and alternatives with slots.
Flags ==
    [deps : {Tree({d}, {}, {}, {}, {}) :
               d \in {Dep(At("b", {1, 2}, AnySlot, "on")), Dep(At("b", {1, 2}, AnySlot, "off")),
                      Or(<<At("b", {1, 2}, AnySlot, "on"), AnyOf("c")>>), Or(<<At("c", {1, 2}, 1, "any"), AnyOf("b")>>)}},
     blocks : {No, [No EXCEPT ![b1] = {AnyOf("c")}], [No EXCEPT ![a2] = {Only("a", 1)}]},
     use : {Off, [Off EXCEPT ![b1] = TRUE]}, vdbUse : {Off, [Off EXCEPT ![b1] = TRUE]},
     repo : {Pkgs}, mask : {Visible}, installed : {{}, {b1}, {c1}, {a1, b1}}, opts : Opts,
     request : {<<Req("a", {1, 2}, FALSE)>>}]
\* A newer version of an installed dependency, itself not visited, blocks an
\* installed package.
Unvisited ==
    [deps : {Tree({Dep(AnyOf("b"))}, {Dep(AnyOf("b"))}, {}, {}, {})},
     blocks : {[No EXCEPT ![b2] = {AnyOf("c")}]}, use : {Off}, vdbUse : {Off}, repo : {Pkgs},
     mask : {Visible}, installed : {{b1, c1}, {a1, b1, c2}}, opts : Opts,
     request : {<<Req("a", {1, 2}, FALSE)>>, <<Req("a", {1, 2}, FALSE), Req("b", {1, 2}, FALSE)>>}]

MCInstances == Plain \cup Masked \cup Flags \cup Unvisited
=============================================================================
