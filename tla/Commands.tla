------------------------------ MODULE Commands ------------------------------
(***************************************************************************)
(* The commands that plan and change the system (internal/cli: app.go,     *)
(* commands.go, install_real.go): install, remove, depclean, build, update *)
(* and resolve, one process each.                                          *)
(*                                                                         *)
(* The state of the machine is a record: vardb, the entries [name, ver,    *)
(* files] of /var/db/pkg; root, the owner of every path that is there;     *)
(* binpkgs, the archives of PKGDIR by path; snapshots, how many there are; *)
(* portage, what was written below /etc/portage; log, what the command did *)
(* in order.  A command c carries its options, the answer of the user      *)
(* (reply), the step that fails (fails), the plan of the resolver in the   *)
(* order in which its map is iterated, and which installed version the map *)
(* of the database yields first (pick).                                    *)
(***************************************************************************)
EXTENDS SolverAids, BinaryPackages, Functions

Outcome(m, err) == [m |-> m, err |-> err]
TakeSnapshot(m) == [m EXCEPT !.snapshots = @ + 1, !.log = Append(@, "snapshot")]

\* Every path of a binary package belongs to the package; without one, files are
\* made up: a README of this version, and a program.
createMockFiles(p) == {<<"doc", p.name, p.ver>>, <<"bin", p.name>>}

-----------------------------------------------------------------------------
(* install_real.go *)

\* A new database, with what the VarDB has.
getOrCreatePackageDB(m) == m.vardb
findInstalledVersion(db, name, pick) ==
    LET same == {e \in db : e.name = name}
        versions == {e.ver : e \in same}
    IN {e \in same : e.ver = IF pick = "lowest" THEN Min(versions) ELSE Max(versions)}

Unmerge(root, e) == Restrict(root, DOMAIN root \ e.files)

\* The old version is taken off the disk and out of the database in memory; its
\* entry of the VarDB stays.  Collisions are looked for after that.
installPackageReal(m, p, archive, c) ==
    LET db == getOrCreatePackageDB(m)
        old == findInstalledVersion(db, p.name, c.pick)
        image == IF archive = <<>> THEN createMockFiles(p) ELSE ExtractGPKG(archive[1]).files
        cleared == [m EXCEPT !.root = FoldSet(LAMBDA e, r : Unmerge(r, e), @, old),
                             !.log = IF old = {} THEN @ ELSE Append(@, "unmerge")]
        owned == UNION {e.files : e \in {x \in db : x.name # p.name}}
        merged == [n \in DOMAIN cleared.root \cup image |-> IF n \in image THEN [name |-> p.name, ver |-> p.ver] ELSE cleared.root[n]]
    IN CASE archive # <<>> /\ ~ExtractGPKG(archive[1]).ok -> Outcome(m, TRUE)
         [] \E e \in old : e.ver = p.ver -> Outcome(m, FALSE)
         [] image \cap owned \cap DOMAIN cleared.root # {} -> Outcome(cleared, TRUE)
         [] OTHER -> Outcome([cleared EXCEPT !.root = merged, !.log = Append(@, "merge"),
                               !.vardb = IF c.fails = "vardb" THEN @ ELSE @ \cup {[name |-> p.name, ver |-> p.ver, files |-> image]}], FALSE)

\* The atom has to be the full one, name and version.
uninstallPackageReal(m, atom) ==
    LET there == {e \in getOrCreatePackageDB(m) : e.name = atom.name /\ <<e.ver>> = atom.ver}
    IN IF there = {} THEN Outcome(m, TRUE)
       ELSE Outcome([m EXCEPT !.root = FoldSet(LAMBDA e, r : Unmerge(r, e), @, there), !.vardb = @ \ there, !.log = Append(@, "unmerge")], FALSE)

\* In order, until one fails.
UntilError(m, Do(_, _), items) ==
    FoldLeft(LAMBDA acc, x : IF acc.err THEN acc ELSE Do(acc.m, x), Outcome(m, FALSE), items)

\* A binary package from an installed one, next to the others as
\* <category>-<package>-<version>.
buildBinaryPackage(m, e, format) ==
    LET built == Build([cat |-> "cat", pn |-> e.name, version |-> e.ver, use |-> {}, files |-> e.files, badlinks |-> {}],
                       format, DOMAIN m.root, "none")
        at == [dir |-> "", stem |-> <<"cat", e.name, e.ver>>]
    IN IF built = <<>> THEN Outcome(m, TRUE)
       ELSE Outcome([m EXCEPT !.binpkgs = [n \in DOMAIN @ \cup {at} |-> IF n = at THEN built[1] ELSE @[n]]], FALSE)

-----------------------------------------------------------------------------
(* app.go *)

findBinaryPackage(m, p) ==
    LET candidates == <<[dir |-> "cat", stem |-> <<p.name, p.ver>>], [dir |-> "", stem |-> <<p.name, p.ver>>]>>
        there == SelectSeq(candidates, LAMBDA n : n \in DOMAIN m.binpkgs)
    IN IF there = <<>> THEN <<>> ELSE <<m.binpkgs[there[1]]>>

\* Without --binpkg, or without a binary package, the files are made up.
executeInstallation(m, c) ==
    LET todo == SelectSeq(c.plan, LAMBDA e : e.action # "keep")
    IN UntilError(m, LAMBDA n, p : installPackageReal(n, p, IF c.binpkg THEN findBinaryPackage(n, p) ELSE <<>>, c), todo)

\* handleSlotCollisions and handleResolveAutounmask look at a graph that has the
\* packages of the plan, one per name, and no edges.
PlannedGraph(plan) ==
    GraphOf([i \in DOMAIN plan |-> [name |-> plan[i].name, base |-> plan[i].name, slot |-> plan[i].slot, sub |-> "", ver |-> plan[i].ver, use |-> <<>>]],
            {}, <<>>)
Collisions(plan) == SetToSeq({SetToSeq(S) : S \in {T \in groupPackagesBySlot(PlannedGraph(plan)) : Cardinality(T) > 1}})
handleSlotCollisions(m, c) ==
    LET entries == ProcessCollisions(PlannedGraph(c.plan), Collisions(c.plan))
    IN IF ~c.autounmask \/ Collisions(c.plan) = <<>> THEN Outcome(m, FALSE)
       ELSE Outcome([m EXCEPT !.portage = IF c.write THEN @ \o entries ELSE @], TRUE)

\* --pretend is looked at only where --ask is not.
\* Mutant: when nothing can be read from the user, the command goes on.
displayPlanAndAsk_EOF(c) ==
    CASE c.ask -> (CASE c.reply = "no" -> "stop" [] OTHER -> "go")
      [] c.pretend -> "stop"
      [] OTHER -> "go"
displayPlanAndAsk(c) ==
    CASE c.ask -> (CASE c.reply = "yes" -> "go" [] c.reply = "no" -> "stop" [] OTHER -> "error")
      [] c.pretend -> "stop"
      [] OTHER -> "go"

\* The snapshot comes before the repository is opened and the plan is made; with
\* --ask it comes after the answer, whatever --no-snapshot says.
createInitialSnapshot(m, c) == IF c.pretend \/ c.ask \/ c.noSnapshot THEN m ELSE TakeSnapshot(m)
runInstall(m, c) ==
    LET begun == createInitialSnapshot(m, c)
        checked == handleSlotCollisions(begun, c)
        asked == displayPlanAndAsk(c)
    IN CASE c.fails \in {"arguments", "sets"} -> Outcome(m, TRUE)
         [] c.fails = "empty set" -> Outcome(m, FALSE)
         [] begun # m /\ c.fails = "snapshot" -> Outcome(m, TRUE)
         [] c.fails \in {"repository", "resolve"} -> Outcome(begun, TRUE)
         [] checked.err -> checked
         [] asked # "go" -> Outcome(checked.m, asked = "error")
         [] c.ask /\ c.fails = "snapshot" -> Outcome(checked.m, TRUE)
         [] OTHER -> executeInstallation(IF c.ask THEN TakeSnapshot(checked.m) ELSE checked.m, c)

\* resolve shows the plan, or the collisions, and says nothing of them as an error.
runResolve(m, c) ==
    IF c.fails \in {"arguments", "sets", "repository", "resolve"} THEN Outcome(m, TRUE)
    ELSE Outcome(handleSlotCollisions(m, c).m, FALSE)

-----------------------------------------------------------------------------
(* commands.go *)

\* With --depclean what else was named is forgotten.
runDepclean(m, c) ==
    LET installed == SetToSeq({[name |-> e.name, slot |-> "0", ver |-> e.ver, deps |-> {}] : e \in getOrCreatePackageDB(m)})
        orphans == {[name |-> o.package.name, ver |-> <<o.package.ver>>] : o \in Calculate(installed, c.world, c.exclude)}
    IN CASE c.fails = "arguments" -> Outcome(m, TRUE)
         [] c.pretend \/ orphans = {} -> Outcome(m, FALSE)
         [] c.ask /\ c.reply # "yes" -> Outcome(m, c.reply = "eof")
         [] OTHER -> UntilError(m, uninstallPackageReal, SetToSeq(orphans))
runRemove(m, c) ==
    CASE c.fails = "arguments" \/ (c.atoms = <<>> /\ ~c.depclean) -> Outcome(m, TRUE)
      [] c.pretend -> Outcome(m, FALSE)
      [] c.depclean -> runDepclean(m, [c EXCEPT !.ask = FALSE, !.exclude = {}])
      [] OTHER -> UntilError(m, uninstallPackageReal, c.atoms)

runBuild(m, c) ==
    LET one(n, atom) == LET there == {e \in getOrCreatePackageDB(n) : e.name = atom.name /\ <<e.ver>> = atom.ver}
                        IN IF there = {} THEN Outcome(n, TRUE) ELSE buildBinaryPackage(n, CHOOSE e \in there : TRUE, c.format)
    IN CASE c.fails = "arguments" \/ c.atoms = <<>> -> Outcome(m, TRUE)
         [] c.pretend -> Outcome(m, FALSE)
         [] OTHER -> UntilError(m, one, c.atoms)

\* A package that is named without its version is never found in the database and
\* counts as new; what is found is compared with the plan of the resolver.
checkPackageForUpdate(m, c, atom) ==
    LET there == {e \in getOrCreatePackageDB(m) : e.name = atom.name /\ <<e.ver>> = atom.ver}
        planned == SelectSeq(c.plan, LAMBDA p : p.name = atom.name)
    IN CASE there = {} -> <<[name |-> atom.name, is |-> "new"]>>
         [] planned = <<>> -> <<>>
         [] <<planned[1].ver>> # atom.ver -> IF planned[1].ver > atom.ver[1] THEN <<[name |-> atom.name, is |-> "upgrade"]>> ELSE <<>>
         [] OTHER -> IF c.newuse THEN <<[name |-> atom.name, is |-> "rebuild"]>> ELSE <<>>
runPackageUpdate(m, c) == FlattenSeq([i \in DOMAIN c.atoms |-> checkPackageForUpdate(m, c, c.atoms[i])])
\* One set: what CalculateUpdates of Policy plans, here for names without a
\* version, with the highest version of each in c.plan.
runSetUpdate(m, c) ==
    LET todo == SelectSeq(c.plan, LAMBDA p : p.name \in c.world)
        installed(n) == {e.ver : e \in {x \in getOrCreatePackageDB(m) : x.name = n}}
        one(p) == CASE installed(p.name) = {} -> <<[name |-> p.name, is |-> "new"]>>
                    [] p.ver > Max(installed(p.name)) -> <<[name |-> p.name, is |-> "upgrade"]>>
                    [] OTHER -> <<>>
    IN FlattenSeq([i \in DOMAIN todo |-> one(todo[i])])
\* executeUpdates and logPackageUpdates write to the log of the program only.
executeUpdates(m, updates) == [m EXCEPT !.log = Append(@, "updates logged")]
\* Without targets, @world; several sets, or sets and packages, are expanded.
runUpdate(m, c) ==
    LET updates == IF c.atoms = <<>> THEN runSetUpdate(m, c) ELSE runPackageUpdate(m, c)
    IN CASE c.fails \in {"arguments", "sets", "repository"} -> Outcome(m, TRUE)
         [] updates = <<>> \/ c.pretend -> Outcome(m, FALSE)
         [] c.ask /\ c.reply # "yes" -> Outcome(m, c.reply = "eof")
         [] OTHER -> Outcome(executeUpdates(m, updates), FALSE)

-----------------------------------------------------------------------------
\* App.Run
RunCommand(m, c) ==
    LET fresh == [m EXCEPT !.log = <<>>]
    IN CASE c.kind = "install" -> runInstall(fresh, c)
         [] c.kind = "resolve" -> runResolve(fresh, c)
         [] c.kind = "remove" -> runRemove(fresh, c)
         [] c.kind = "depclean" -> runDepclean(fresh, c)
         [] c.kind = "build" -> runBuild(fresh, c)
         [] c.kind = "update" -> runUpdate(fresh, c)
\* The states of the machine, the first one before any command.
RunAll(m, commands) ==
    FoldLeft(LAMBDA acc, c : Append(acc, RunCommand(Last(acc).m, c)), <<Outcome(m, FALSE)>>, commands)
=============================================================================
