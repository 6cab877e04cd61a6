---------------------------- MODULE OrderedBuilds ----------------------------
(***************************************************************************)
(* What `emerge --jobs` promises about the builds it runs, whatever        *)
(* channels, statuses and goroutines carry them out: packages are built on *)
(* a fixed number of lanes, a package only after the packages it needs     *)
(* were built, none any more once the run was halted by a failure, and the *)
(* run is over only when every lane is free.  BuildScheduler is shown to   *)
(* implement it.                                                           *)
(***************************************************************************)
CONSTANTS Packages, Lanes, NoPackage

VARIABLES phase,   \* "planning", "building" or "over"
          needs,   \* package -> packages it needs
          lane,    \* lane -> package under construction, or NoPackage
          built,   \* packages that were built successfully
          halted   \* no further build may begin

vars == <<phase, needs, lane, built, halted>>

Free(l) == lane[l] = NoPackage

Init ==
    /\ phase = "planning"
    /\ needs = [p \in Packages |-> {}]
    /\ lane = [l \in Lanes |-> NoPackage]
    /\ built = {}
    /\ halted = FALSE

Plan(p, q) ==
    /\ phase = "planning"
    /\ needs' = [needs EXCEPT ![p] = @ \union {q}]
    /\ UNCHANGED <<phase, lane, built, halted>>

Launch ==
    /\ phase = "planning"
    /\ phase' \in {"building", "over"}      \* over: the plan was refused
    /\ UNCHANGED <<needs, lane, built, halted>>

Begin(l, p) ==
    /\ phase = "building" /\ ~halted
    /\ Free(l)
    /\ needs[p] \subseteq built
    /\ lane' = [lane EXCEPT ![l] = p]
    /\ UNCHANGED <<phase, needs, built, halted>>

End(l) ==
    /\ phase = "building" /\ ~Free(l)
    /\ built' \in {built, built \union {lane[l]}}
    /\ lane' = [lane EXCEPT ![l] = NoPackage]
    /\ UNCHANGED <<phase, needs, halted>>

Halt ==
    /\ phase = "building"
    /\ halted' = TRUE
    /\ UNCHANGED <<phase, needs, lane, built>>

Finish ==
    /\ phase = "building"
    /\ \A l \in Lanes : Free(l)
    /\ phase' = "over"
    /\ UNCHANGED <<needs, lane, built, halted>>

Next ==
    \/ \E p \in Packages, q \in Packages : Plan(p, q)
    \/ Launch
    \/ \E l \in Lanes, p \in Packages : Begin(l, p)
    \/ \E l \in Lanes : End(l)
    \/ Halt
    \/ Finish

Spec == Init /\ [][Next]_vars
=============================================================================
