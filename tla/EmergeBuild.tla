---------------------------- MODULE EmergeBuild ----------------------------
(***************************************************************************)
(* `grpm emerge` with one build job (internal/cli/emerge.go): the solution *)
(* is put into build order, and every package is built in its phases       *)
(* (internal/ebuild/executor.go, phases_impl.go) under TMPDIR, merged and  *)
(* its work directory removed.  The directory of a package has a fixed     *)
(* name, no lock protects it and nothing empties it: it outlives a build   *)
(* that fails or is killed, and commands that overlap share it.            *)
(*                                                                         *)
(* A work directory is abstracted to who left files in it: the commands    *)
(* whose sources or objects are in WORKDIR, and those whose products are   *)
(* in the image D.  Installer.Install is one step here; PackageInstall     *)
(* models it.                                                              *)
(***************************************************************************)
EXTENDS Integers, FiniteSets, FiniteSetsExt, Sequences, SequencesExt

CONSTANTS
  NumCommands,  \* bound: emerge commands in the life of the model
  NumKeys,      \* slot keys of the solution, numbered in sortSlotKeys order
  KeyName,      \* the package name of a key
  Graphs,       \* possible dependencies: key -> set of dependency entries
  Solutions,    \* bound: what each command may be asked for
  Options,      \* bound: combinations of --keep-going, --keep-work, --test
  Makes,        \* keys whose sources bring a configure script or a Makefile
  Custom,       \* phases that the ebuild of a key, or an eclass, defines
  MaxFaults     \* bound: failing steps, unparsed ebuilds and kills

Emerges == 1 .. NumCommands
Keys == 1 .. NumKeys

(* A dependency entry names a package and either one of its slots (a key)  *)
(* or, as Slot "", "=" and "*" do, all of them.                            *)
AnySlot == 0

Phases == <<"setup", "unpack", "prepare", "configure", "compile", "test", "install">>

ASSUME EmergeAssumption ==
  /\ NumCommands \in Nat \ {0} /\ NumKeys \in Nat \ {0} /\ MaxFaults \in Nat
  /\ DOMAIN KeyName = Keys /\ Makes \subseteq Keys
  /\ Custom \in [Keys -> SUBSET Range(Phases)]
  /\ Solutions \in [Emerges -> SUBSET (SUBSET Keys)]
  /\ Options \subseteq [keepGoing : BOOLEAN, keepWork : BOOLEAN, test : BOOLEAN]

VARIABLES
  deps,       \* the dependency entries of every key
  cmd,        \* the state of every command
  dir,        \* the work directory of every key
  merged,     \* what the last installation of a key merged, and of whom
  faults,     \* failing steps and kills so far
  \* history, read by properties only
  spoiled,    \* keys whose directory an earlier attempt has left behind
  crossed     \* commands that shared the directory of their package

emergeVars == <<deps, cmd, dir, merged, faults, spoiled, crossed>>

NoFiles == [work |-> {}, image |-> {}]
NotMerged == [by |-> 0, files |-> {}, sure |-> TRUE]
Idle == [pc |-> "idle", order |-> <<>>, keep |-> {}, keepGoing |-> FALSE, keepWork |-> FALSE,
         enableTests |-> FALSE, at |-> 0, phase |-> 0, custom |-> {},
         done |-> {}, failed |-> {}, sure |-> TRUE]

Ended(verdict) == [Idle EXCEPT !.pc = verdict]

Working == {"phase", "merge", "cleanup"}

CommandState ==
  [pc : {"idle", "next", "nil", "error", "killed"} \cup Working,
   order : Seq(Keys), keep : SUBSET Keys,
   keepGoing : BOOLEAN, keepWork : BOOLEAN, enableTests : BOOLEAN,
   at : Keys \cup {0}, phase : 0 .. Len(Phases), custom : SUBSET Range(Phases),
   done : SUBSET Keys, failed : SUBSET Keys, sure : BOOLEAN]

EmergeTypeOK ==
  /\ deps \in Graphs
  /\ cmd \in [Emerges -> CommandState]
  /\ dir \in [Keys -> [work : SUBSET Emerges, image : SUBSET Emerges]]
  /\ merged \in [Keys -> [by : Emerges \cup {0}, files : SUBSET Emerges, sure : BOOLEAN]]
  /\ faults \in 0 .. MaxFaults
  /\ spoiled \subseteq Keys /\ crossed \subseteq Emerges

EmergeInit ==
  /\ deps \in Graphs
  /\ cmd = [c \in Emerges |-> Idle]
  /\ dir = [k \in Keys |-> NoFiles]
  /\ merged = [k \in Keys |-> NotMerged]
  /\ faults = 0 /\ spoiled = {} /\ crossed = {}

-----------------------------------------------------------------------------
(* The build order.                                                        *)

(* The keys of the solution that the entry d of key k refers to.           *)
Meant(sol, k, d) ==
  {q \in sol \ {k} : KeyName[q] = d.name /\ d.slot \in {AnySlot, q}}

(* The keys that k waits for by the dependencies g; PDEPEND counts for     *)
(* nothing.                                                                *)
buildDepEdges(g, sol, k) ==
  UNION {Meant(sol, k, d) : d \in {e \in g[k] : e.type # "pdepend"}}

(* A dependency counted down once is taken for all of them.                *)
Ready_FirstEdge(g, sol, r) ==
  {k \in sol \ Range(r) :
     buildDepEdges(g, sol, k) = {} \/ buildDepEdges(g, sol, k) \cap Range(r) # {}}

(* The keys the queue holds when r has been taken from it: each has had    *)
(* its in-degree counted down to zero.                                     *)
Ready(g, sol, r) ==
  {k \in sol \ Range(r) : buildDepEdges(g, sol, k) \subseteq Range(r)}

(* One turn of the loop: the first key of the queue, if there is one.      *)
Take(g, sol, r) == IF Ready(g, sol, r) = {} THEN r ELSE Append(r, Min(Ready(g, sol, r)))

(* The keys in the order they leave the queue, turn by turn.               *)
Taken(g, sol) ==
  LET r[i \in 0 .. Cardinality(sol)] == IF i = 0 THEN <<>> ELSE Take(g, sol, r[i - 1])
  IN  r

sortSlotKeys(S) ==
  CHOOSE s \in [1 .. Cardinality(S) -> S] : \A i, j \in DOMAIN s : i < j => s[i] < s[j]

(* Kahn's algorithm with a queue kept in order; what a cycle holds back is *)
(* appended in order.                                                      *)
topologicalSort(g, sol) ==
  LET result == Taken(g, sol)[Cardinality(sol)]
  IN  result \o sortSlotKeys(sol \ Range(result))

-----------------------------------------------------------------------------
(* The driver: buildAndInstallPackages.                                    *)

(* A command starts with a solution; it keeps only what is installed.      *)
Emerge(c) ==
  /\ cmd[c].pc = "idle"
  /\ \A b \in Emerges : b < c => cmd[b].pc # "idle"
  /\ \E sol \in Solutions[c], o \in Options :
       \E keep \in SUBSET {k \in sol : merged[k].by # 0} :
         cmd' = [cmd EXCEPT ![c] = [Idle EXCEPT !.pc = "next", !.order = topologicalSort(deps, sol),
                   !.keep = keep, !.keepGoing = o.keepGoing, !.keepWork = o.keepWork,
                   !.enableTests = o.test]]
  /\ UNCHANGED <<deps, dir, merged, faults, spoiled, crossed>>

(* The next package that is not already installed: its executor is made,   *)
(* its ebuild parsed (when that fails, the default phases are used) and    *)
(* the directories made, which leaves what is in them.                     *)
NextPackage(c) ==
  /\ cmd[c].pc = "next" /\ cmd[c].order # <<>>
  /\ LET k == Head(cmd[c].order) rest == Tail(cmd[c].order)
         here == {b \in Emerges \ {c} : cmd[b].at = k}
     IN  IF k \in cmd[c].keep
         THEN /\ cmd' = [cmd EXCEPT ![c].order = rest]
              /\ UNCHANGED <<faults, crossed>>
         ELSE /\ \E custom \in {Custom[k], {}} :
                   /\ faults' = faults + (IF custom = Custom[k] THEN 0 ELSE 1)
                   /\ faults' <= MaxFaults
                   /\ cmd' = [cmd EXCEPT ![c].order = rest, ![c].at = k, ![c].pc = "phase",
                             ![c].phase = 1, ![c].custom = custom, ![c].sure = k \notin spoiled]
              /\ crossed' = (IF here = {} THEN crossed \ {c} ELSE crossed \cup here \cup {c})
  /\ UNCHANGED <<deps, dir, merged, spoiled>>

(* All packages have been taken: an error when one has failed.             *)
EndEmerge(c) ==
  /\ cmd[c].pc = "next" /\ cmd[c].order = <<>>
  /\ cmd' = [cmd EXCEPT ![c] = Ended(IF cmd[c].failed = {} THEN "nil" ELSE "error")]
  /\ UNCHANGED <<deps, dir, merged, faults, spoiled, crossed>>

(* The state of a command that is between two packages.                    *)
Rest(r) == [r EXCEPT !.pc = "next", !.at = 0, !.phase = 0, !.custom = {}, !.sure = TRUE]

(* buildAndInstallSingle returns an error: with --keep-going the loop goes *)
(* on with the next package, otherwise the command ends.                   *)
Failed(c) ==
  /\ faults < MaxFaults
  /\ faults' = faults + 1
  /\ LET r == cmd[c]
     IN  cmd' = [cmd EXCEPT ![c] = IF r.keepGoing
                                    THEN [Rest(r) EXCEPT !.failed = r.failed \cup {r.at}]
                                    ELSE Ended("error")]
  /\ spoiled' = spoiled \cup {cmd[c].at}

-----------------------------------------------------------------------------
(* The phases: ExecutePhases and the default implementations.              *)

Phase(c) == Phases[cmd[c].phase]

HasPhaseFunction(c) == Phase(c) \in cmd[c].custom

Own(c, t) == [t EXCEPT !.work = @ \cup {c}]
Filled(from, t) == {[t EXCEPT !.image = @ \cup w] : w \in SUBSET from}

(* What a function of the ebuild or of an eclass that ends well may have   *)
(* made of the directory t: it may put files where its phase does.         *)
RunPhaseFunction(c, t) ==
  CASE Phase(c) = "setup" -> {t}
    [] Phase(c) = "install" -> Filled(t.work \cup {c}, t)
    [] OTHER -> {t, Own(c, t)}

(* The same for the default phases.  Missing archives are skipped; without *)
(* a Makefile nothing is done; make takes objects that are there for up to *)
(* date; and make install must not leave D empty, whoever has filled it.   *)
DefaultPhase(c, t) ==
  LET makefile == cmd[c].at \in Makes /\ t.work # {}
  IN  CASE Phase(c) = "unpack" -> {t, Own(c, t)}
        [] Phase(c) \in {"configure", "compile", "test"} /\ makefile -> {t, Own(c, t)}
        [] Phase(c) = "install" /\ makefile -> {i \in Filled(t.work, t) : i.image # {}}
        [] OTHER -> {t}

(* dispatchPhase.                                                          *)
Outcomes(c, t) == IF HasPhaseFunction(c) THEN RunPhaseFunction(c, t) ELSE DefaultPhase(c, t)

(* The default prepare does nothing, and the default test cannot fail: a   *)
(* failing make check or make test is taken for a missing target.          *)
CanFail(c) ==
  \/ HasPhaseFunction(c)
  \/ Phase(c) \in {"setup", "unpack"}
  \/ Phase(c) \in {"configure", "compile", "install"} /\ cmd[c].at \in Makes

(* fetchDistfiles, before unpack: a distfile that cannot be had ends the   *)
(* build.                                                                  *)
FetchFails(c) ==
  /\ cmd[c].pc = "phase" /\ Phase(c) = "unpack"
  /\ Failed(c)
  /\ UNCHANGED <<deps, dir, merged, crossed>>

(* The phase ends well; test is skipped unless enabled.                    *)
PhaseEnds(c) ==
  /\ cmd[c].pc = "phase"
  /\ LET k == cmd[c].at skip == Phase(c) = "test" /\ ~cmd[c].enableTests
     IN  \E t \in IF skip THEN {dir[k]} ELSE Outcomes(c, dir[k]) :
           dir' = [dir EXCEPT ![k] = t]
  /\ cmd' = [cmd EXCEPT ![c].phase = IF @ = Len(Phases) THEN @ ELSE @ + 1,
                        ![c].pc = IF cmd[c].phase = Len(Phases) THEN "merge" ELSE "phase"]
  /\ UNCHANGED <<deps, merged, faults, spoiled, crossed>>

(* The phase fails, or panics, and leaves the directory as it is.          *)
PhaseFails(c) ==
  /\ cmd[c].pc = "phase" /\ CanFail(c)
  /\ Phase(c) = "test" => cmd[c].enableTests
  /\ \E t \in {dir[cmd[c].at]} \cup Outcomes(c, dir[cmd[c].at]) :
       dir' = [dir EXCEPT ![cmd[c].at] = t]
  /\ Failed(c)
  /\ UNCHANGED <<deps, merged, crossed>>

-----------------------------------------------------------------------------
(* installFromImageDir.                                                    *)

Merge(c) ==
  /\ cmd[c].pc = "merge"
  /\ \/ /\ merged' = [merged EXCEPT ![cmd[c].at] =
              [by |-> c, files |-> dir[cmd[c].at].image, sure |-> cmd[c].sure /\ c \notin crossed]]
        /\ cmd' = [cmd EXCEPT ![c].done = @ \cup {cmd[c].at}, ![c].pc = "cleanup"]
        /\ UNCHANGED <<faults, spoiled>>
     \/ /\ Failed(c)
        /\ UNCHANGED merged
  /\ UNCHANGED <<deps, dir, crossed>>

(* The directory is left to the next build.                                *)
Cleanup_Never(c) ==
  /\ cmd[c].pc = "cleanup"
  /\ cmd' = [cmd EXCEPT ![c] = Rest(@)]
  /\ spoiled' = spoiled \ {cmd[c].at}
  /\ UNCHANGED <<deps, dir, merged, faults, crossed>>

(* The work directory goes, unless it is to be kept; when it cannot be     *)
(* removed there is a warning.                                             *)
Cleanup(c) ==
  /\ cmd[c].pc = "cleanup"
  /\ cmd' = [cmd EXCEPT ![c] = Rest(@)]
  /\ \/ /\ ~cmd[c].keepWork
        /\ dir' = [dir EXCEPT ![cmd[c].at] = NoFiles]
        /\ spoiled' = spoiled \ {cmd[c].at}
        /\ UNCHANGED faults
     \/ /\ ~cmd[c].keepWork /\ faults < MaxFaults
        /\ faults' = faults + 1
        /\ spoiled' = spoiled \cup {cmd[c].at}
        /\ UNCHANGED dir
     \/ /\ cmd[c].keepWork
        /\ spoiled' = spoiled \cup {cmd[c].at}
        /\ UNCHANGED <<dir, faults>>
  /\ UNCHANGED <<deps, merged, crossed>>

(* The process is killed.                                                  *)
Kill(c) ==
  /\ cmd[c].pc \in {"next", "phase", "merge", "cleanup"} /\ faults < MaxFaults
  /\ faults' = faults + 1
  /\ cmd' = [cmd EXCEPT ![c] = Ended("killed")]
  /\ spoiled' = IF cmd[c].pc = "next" THEN spoiled ELSE spoiled \cup {cmd[c].at}
  /\ UNCHANGED <<deps, dir, merged, crossed>>

EmergeNext ==
  \E c \in Emerges :
    \/ Emerge(c) \/ NextPackage(c) \/ EndEmerge(c)
    \/ FetchFails(c) \/ PhaseEnds(c) \/ PhaseFails(c)
    \/ Merge(c) \/ Cleanup(c) \/ Kill(c)

EmergeSpec == EmergeInit /\ [][EmergeNext]_emergeVars

-----------------------------------------------------------------------------
(* An installation by a build that nobody disturbed merges files of that   *)
(* build alone: nobody means that no other emerge worked in its directory  *)
(* at the same time and that every earlier build of the package had been   *)
(* merged and its directory removed (installFromImageDir is the only place *)
(* that removes it; CreateDirectories never empties it).                   *)
MergedIsOwn ==
  \A k \in Keys : merged[k].sure => merged[k].files \subseteq {merged[k].by}

(* Without --keep-going, and when no cycle runs through what a package     *)
(* waits for, all it depends on has been merged or was kept when its build *)
(* is under way (topologicalSort, and the return at the first failure).    *)
Waits(g, sol, k) ==
  LET Reach[i \in 0 .. NumKeys] ==
        IF i = 0 THEN buildDepEdges(g, sol, k)
        ELSE Reach[i - 1] \cup UNION {buildDepEdges(g, sol, q) : q \in Reach[i - 1]}
  IN  Reach[NumKeys]

Acyclic(g, sol) == \A q \in sol : q \notin Waits(g, sol, q)

DependenciesMergedFirst ==
  \A c \in Emerges :
    LET sol == Range(cmd[c].order) \cup {cmd[c].at} \cup cmd[c].done \cup cmd[c].keep
    IN  cmd[c].pc \in Working /\ ~cmd[c].keepGoing /\ Acyclic(deps, sol) =>
          buildDepEdges(deps, sol, cmd[c].at) \subseteq cmd[c].done \cup cmd[c].keep

-----------------------------------------------------------------------------
(* The inductive invariant.                                                *)

(* A command has a package exactly while it works on it.                   *)
HasPackage(r) ==
  /\ r.at # 0 <=> r.pc \in Working
  /\ r.pc = "phase" => r.phase # 0
  /\ r.pc = "cleanup" => r.at \in r.done

AtWork == \A c \in Emerges : HasPackage(cmd[c])

(* Commands that work in the same directory are known to.                  *)
SharedIsCrossed ==
  \A b, c \in Emerges :
    b # c /\ cmd[b].at = cmd[c].at /\ cmd[c].at # 0 => b \in crossed /\ c \in crossed

(* Who found a clean directory and has it alone finds only its own files.  *)
OwnDirectory ==
  \A c \in Emerges :
    cmd[c].at # 0 /\ cmd[c].sure /\ c \notin crossed =>
      dir[cmd[c].at].work \cup dir[cmd[c].at].image \subseteq {c}

(* A directory that nobody uses and nobody left behind is empty.           *)
LeftEmpty ==
  \A k \in Keys :
    k \notin spoiled /\ (\A c \in Emerges : cmd[c].at # k) => dir[k] = NoFiles

(* What a command was asked for, and what it has dealt with.               *)
Asked(r) == Range(r.order) \cup ({r.at} \ {0}) \cup r.done \cup r.keep
Settled(r) == r.done \cup r.keep

(* What is still to be built comes in an order that its dependencies       *)
(* allow, and the package in work has all of its own.                      *)
InBuildOrder(g, r) ==
  r.pc \in Working \cup {"next"} /\ ~r.keepGoing /\ Acyclic(g, Asked(r)) =>
    /\ \A i \in 1 .. Len(r.order) :
         \A q \in buildDepEdges(g, Asked(r), r.order[i]) :
           q \in Settled(r) \/ q = r.at \/ \E j \in 1 .. (i - 1) : r.order[j] = q
    /\ r.at # 0 => buildDepEdges(g, Asked(r), r.at) \subseteq Settled(r)

OrderHeld == \A c \in Emerges : InBuildOrder(deps, cmd[c])

EmergeInv ==
  /\ EmergeTypeOK /\ AtWork /\ SharedIsCrossed /\ OwnDirectory /\ LeftEmpty
  /\ MergedIsOwn /\ OrderHeld
=============================================================================
