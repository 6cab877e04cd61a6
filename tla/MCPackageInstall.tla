-------------------------- MODULE MCPackageInstall --------------------------
(***************************************************************************)
(* Instances of PackageInstall for TLC.                                    *)
(***************************************************************************)
EXTENDS PackageInstall, TLC

CONSTANTS a1, a2, b1,       \* two versions of one package, another package
          f, e              \* a program and a configuration file

MCNameOf == [x \in Atoms |-> IF x = b1 THEN "b" ELSE "a"]
MCSlotOf == [x \in Atoms |-> "0"]
MCRank   == [x \in Atoms |-> IF x = a1 THEN 1 ELSE IF x = a2 THEN 2 ELSE 3]

\* Both versions of a have a configuration file, which differs.  The older one
\* and b have the same program.
MCContentOf ==
    [x \in Atoms |-> [p \in Paths |->
        IF p = e THEN (IF x = b1 THEN NoFile ELSE <<x, p>>)
        ELSE IF x = a2 THEN NoFile ELSE <<x, p>>]]

\* The two workers of an emerge do the same.
WorkerSymmetry == Permutations(Workers)
=============================================================================
