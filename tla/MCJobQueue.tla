----------------------------- MODULE MCJobQueue -----------------------------
(***************************************************************************)
(* Instances of JobQueue for TLC.                                          *)
(***************************************************************************)
EXTENDS JobQueue

CONSTANTS j1, j2, j3, p, q

\* j1 and j2 install the same package; j3 installs another one, which depends
\* on the package of j1 and j2 (SharedDep) or not (Apart).
MCPackageOf == [j \in Jobs |-> IF j = j3 THEN q ELSE p]
SharedDep   == [j \in Jobs |-> IF j = j3 THEN {p, q} ELSE {p}]
Apart       == [j \in Jobs |-> IF j = j3 THEN {q} ELSE {p}]
MCPriority  == [j \in Jobs |-> IF j = j2 THEN 1 ELSE 0]
=============================================================================
