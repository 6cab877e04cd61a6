--------------------------- MODULE MCEmergeBuild ---------------------------
(* Three keys: two slots of package "a" and package "b".                   *)
EXTENDS EmergeBuild

MCKeyName == <<"a", "a", "b">>
MCCustom == <<{"unpack", "test"}, {"prepare"}, {"compile", "install"}>>

MCSolutions == <<{{1, 2, 3}}, {{1}}>>
MCOptions == {[keepGoing |-> TRUE, keepWork |-> FALSE, test |-> TRUE],
              [keepGoing |-> FALSE, keepWork |-> FALSE, test |-> FALSE],
              [keepGoing |-> FALSE, keepWork |-> TRUE, test |-> FALSE]}

Entry(k, name, slot, type) == <<k, [name |-> name, slot |-> slot, type |-> type]>>

(* A dependency on both slots; a chain against the order of the keys; a    *)
(* cycle; a cycle that PDEPEND opens; one slot of two.                     *)
Graph(E) == [k \in Keys |-> {e[2] : e \in {f \in E : f[1] = k}}]
MCGraphs ==
  {Graph({Entry(3, "a", AnySlot, "depend")}),
   Graph({Entry(1, "a", 2, "rdepend"), Entry(2, "b", AnySlot, "depend")}),
   Graph({Entry(1, "b", AnySlot, "depend"), Entry(3, "a", 1, "rdepend")}),
   Graph({Entry(1, "b", AnySlot, "depend"), Entry(3, "a", AnySlot, "pdepend")}),
   Graph({Entry(3, "a", 2, "rdepend"), Entry(1, "b", 3, "depend"), Entry(1, "a", 2, "depend")})}
=============================================================================
