----------------------------- MODULE MCCommands -----------------------------
(***************************************************************************)
(* Commands one after another: "install" with every combination of its     *)
(* options, answers and failing steps, and every sequence of up to three   *)
(* commands of a menu, on machines with and without an older version and   *)
(* with archives that do and do not collide.                               *)
(***************************************************************************)
EXTENDS MCSolverAids, Commands

Planned(n, v) == [name |-> n, ver |-> v, slot |-> "0", action |-> "install"]
Full(n, v) == [name |-> n, ver |-> <<v>>]
Command(kind) ==
    [kind |-> kind, pretend |-> FALSE, ask |-> FALSE, reply |-> "yes", noSnapshot |-> FALSE, binpkg |-> FALSE,
     autounmask |-> FALSE, write |-> FALSE, fails |-> "none", plan |-> <<>>, pick |-> "lowest", atoms |-> <<>>,
     depclean |-> FALSE, exclude |-> {}, world |-> {}, newuse |-> FALSE, format |-> "gpkg"]
InstallOf(plan, pick) == [Command("install") EXCEPT !.plan = plan, !.pick = pick]

FileArchive(pn, image) ==
    [fmt |-> "gpkg", cat |-> "cat", pn |-> pn, version |-> 1, use |-> {}, age |-> 0, signer |-> "none", image |-> image, layout |-> PlainGPKG]
Machine(vardb, archives) ==
    [vardb |-> vardb, binpkgs |-> archives, snapshots |-> 0, portage |-> <<>>, log |-> <<>>,
     root |-> [n \in UNION {e.files : e \in vardb} |-> LET e == CHOOSE x \in vardb : n \in x.files IN [name |-> e.name, ver |-> e.ver]]]
MockEntry(n, v) == [name |-> n, ver |-> v, files |-> createMockFiles([name |-> n, ver |-> v])]
BArchive(image) == [dir |-> "cat", stem |-> <<"b", 1>>] :> FileArchive("b", image)
Machines ==
    {Machine(db, bin) : db \in {{}, {MockEntry("a", 1)}, {MockEntry("a", 1), MockEntry("b", 1)}, {MockEntry("a", 1), MockEntry("b", 2)}},
                        bin \in {<<>>, BArchive({<<"lib", "b">>}), BArchive({<<"bin", "a">>})}}

\* One install command with its options.
OneInstall ==
    {[InstallOf(<<Planned("b", 1), Planned("a", 2)>>, "lowest") EXCEPT !.pretend = p, !.ask = a, !.reply = r, !.noSnapshot = n,
                                                                 !.binpkg = b, !.fails = f, !.autounmask = u, !.write = u] :
        p \in BOOLEAN, a \in BOOLEAN, r \in {"yes", "no", "eof"}, n \in BOOLEAN, b \in BOOLEAN, u \in BOOLEAN,
        f \in {"none", "arguments", "sets", "empty set", "snapshot", "repository", "resolve", "vardb"}}

\* The menu for sequences.
Menu ==
    {InstallOf(plan, pick) : plan \in {<<Planned("a", 1)>>, <<Planned("a", 2)>>, <<Planned("a", 1), Planned("b", 1)>>, <<[Planned("a", 2) EXCEPT !.action = "keep"]>>},
                             pick \in {"lowest", "highest"}}
      \cup {[InstallOf(<<Planned("b", 1)>>, "lowest") EXCEPT !.binpkg = TRUE]}
      \cup {[Command("remove") EXCEPT !.atoms = l, !.depclean = d, !.pretend = p] :
              l \in {<<>>, <<Full("a", 1)>>, <<Full("b", 2), Full("a", 2)>>, <<[name |-> "a", ver |-> <<>>]>>}, d \in BOOLEAN, p \in {FALSE}}
      \cup {[Command("remove") EXCEPT !.atoms = <<Full("a", 1)>>, !.pretend = TRUE]}
      \cup {[Command("depclean") EXCEPT !.world = {"a"}, !.ask = k, !.reply = r] : k \in BOOLEAN, r \in {"no", "eof"}}
      \cup {[Command("build") EXCEPT !.atoms = <<Full("a", 1), Full("b", 1)>>, !.pretend = p] : p \in BOOLEAN}
      \cup {[Command("update") EXCEPT !.atoms = l, !.plan = <<Planned("a", 2)>>, !.world = {"a"}] : l \in {<<>>, <<[name |-> "a", ver |-> <<>>]>>, <<Full("a", 1)>>}}
      \cup {[Command("resolve") EXCEPT !.autounmask = TRUE, !.plan = <<Planned("a", 1), Planned("a", 2)>>]}

CommandInputs ==
    [kind : {"commands"}, machine : Machines, commands : {<<c>> : c \in OneInstall}]
      \cup [kind : {"commands"}, machine : Machines, commands : {<<c, d>> : c \in Menu, d \in Menu}]
      \cup [kind : {"commands"}, machine : {Machine({MockEntry("a", 1)}, <<>>)}, commands : {<<c, d, e>> : c \in Menu, d \in Menu, e \in Menu}]

RunThem ==
    /\ input.kind = "commands" /\ answer = NoAnswer
    /\ answer' = [kind |-> "commands", trace |-> RunAll(input.machine, input.commands)]
    /\ UNCHANGED input

-----------------------------------------------------------------------------
\* Each command with the machine before and after it.
Steps == {[c |-> input.commands[i], before |-> answer.trace[i].m, after |-> answer.trace[i + 1].m, err |-> answer.trace[i + 1].err,
           earlier |-> {answer.trace[j].m : j \in 1 .. i}] : i \in DOMAIN input.commands}
Declined(c) == (c.pretend /\ ~c.ask) \/ (c.ask /\ c.reply # "yes") \/ c.kind \in {"update", "resolve"}
OnePerName(m) == \A e, f \in m.vardb : e.name = f.name => e = f
NamedBy(c) == IF c.kind = "install" THEN {c.plan[i].name : i \in DOMAIN c.plan} ELSE {c.atoms[i].name : i \in DOMAIN c.atoms}
\* The package is in the VarDB and all its files are its own.
Whole(m, n, v) == \E e \in m.vardb : e.name = n /\ e.ver = v /\ \A f \in e.files : f \in DOMAIN m.root /\ m.root[f] = [name |-> n, ver |-> v]

\* What a command changes was asked for.  (1) A snapshot of this command precedes
\* whatever "install" changes, unless --no-snapshot was given.  (2) A command that
\* only shows, or that was not confirmed, leaves the machine as it is.  (3) Files of
\* packages that were not named stay, collisions included.  (4) As long as no name
\* has had two entries, "install" ends with nil only if all of its plan is there,
\* whole, and what an error leaves behind is whole, too, but for the package that
\* failed.  (5) No archive is ever changed.
CommandsDoAsTold ==
    answer.kind = "commands" =>
        \A s \in Steps :
            LET c == s.c
                changed == s.before.root # s.after.root
                log == s.after.log
            IN /\ c.kind = "install" /\ changed /\ ~c.noSnapshot => log # <<>> /\ log[1] = "snapshot"
               /\ Declined(c) => s.after = [s.before EXCEPT !.log = log]
               /\ c.kind = "install" \/ (c.kind = "remove" /\ ~c.depclean)
                    => \A f \in DOMAIN s.before.root : s.before.root[f].name \notin NamedBy(c)
                         => f \in DOMAIN s.after.root /\ s.after.root[f] = s.before.root[f]
               /\ c.kind = "install" /\ c.fails = "none" /\ ~Declined(c) /\ (\A m \in s.earlier : OnePerName(m))
                    => LET whole == {i \in DOMAIN c.plan : c.plan[i].action = "keep" \/ Whole(s.after, c.plan[i].name, c.plan[i].ver)}
                       IN IF s.err THEN \E k \in DOMAIN c.plan : 1 .. k - 1 \subseteq whole ELSE whole = DOMAIN c.plan
               /\ \A n \in DOMAIN s.before.binpkgs : n \in DOMAIN s.after.binpkgs
                    /\ (c.kind = "build" \/ s.after.binpkgs[n] = s.before.binpkgs[n])

\* Refuted: app.go:415 "Show what would be installed (dry-run)": with --ask as well, a
\* "yes" installs.
PretendNeverInstalls == answer.kind = "commands" => \A s \in Steps : s.c.pretend => s.before.root = s.after.root
\* Refuted: app.go:414 "Skip snapshot creation (for testing)": not with --ask.
NoSnapshotHonoured == answer.kind = "commands" => \A s \in Steps : s.c.noSnapshot => s.before.snapshots = s.after.snapshots
\* Refuted: a package whose installation was reported is there.  The entry of the
\* version that was upgraded away stays, and passes for installed later.
InstalledMeansThere ==
    answer.kind = "commands" =>
        \A s \in Steps : s.c.kind = "install" /\ ~s.err /\ ~Declined(s.c) /\ s.c.fails = "none" =>
            \A i \in DOMAIN s.c.plan : Whole(s.after, s.c.plan[i].name, s.c.plan[i].ver) \/ s.c.plan[i].action = "keep"
\* Refuted: app.go:411 "Prefer binary packages when available": what the build command
\* has made is not found under its name.
BuiltIsFound ==
    answer.kind = "commands" =>
        \A s \in Steps : s.c.kind = "build" /\ ~s.err /\ ~s.c.pretend =>
            \A i \in DOMAIN s.c.atoms : findBinaryPackage(s.after, [name |-> s.c.atoms[i].name, ver |-> s.c.atoms[i].ver[1]]) # <<>>
\* Refuted: a failed install leaves the version that was there.
FailureKeepsOld ==
    answer.kind = "commands" =>
        \A s \in Steps : s.c.kind = "install" /\ s.err => \A e \in s.before.vardb : Whole(s.before, e.name, e.ver) =>
            \E v \in 1 .. 2 : Whole(s.after, e.name, v)
\* Refuted: app.go:420 "Show USE/keyword changes to resolve conflicts": two versions in
\* one slot are one node of the graph.
CollisionsSeen ==
    answer.kind = "commands" =>
        \A i \in DOMAIN input.commands : LET p == input.commands[i].plan IN
            (\E j, k \in DOMAIN p : j # k /\ p[j].name = p[k].name /\ p[j].slot = p[k].slot) => Collisions(p) # <<>>

-----------------------------------------------------------------------------
CommandsNext == AidsNext \/ RunThem
CommandsInit == AidsInit \/ (input \in CommandInputs /\ answer = NoAnswer)
CommandsSpec == CommandsInit /\ [][CommandsNext]_vars
=============================================================================
