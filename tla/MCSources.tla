----------------------------- MODULE MCSources -----------------------------
(***************************************************************************)
(* Inherit lines, eclass caches, and the loops of the eclasses written in  *)
(* Go; and which distfiles a build and grpm fetch download, for every      *)
(* SRC_URI, Manifest and set of USE flags: on every input of the sets      *)
(* below.                                                                  *)
(***************************************************************************)
EXTENDS MCCommands, EclassInherit, EclassEnv, Sources


Statement(op, var, words) == [op |-> op, var |-> var, words |-> words]
InheritLine(names) == IF names = <<>> THEN <<>> ELSE <<Statement("inherit", "", names)>>
Fail == Statement("fail", "", <<>>)

\* An eclass: metadata before and after its inherit line and its exports at the end
\* ("late") or at its start ("early"); "fails" in its middle.
EclassText(name, names, shape) ==
    CASE shape = "late" -> <<Statement("set", "IUSE", <<name>>)>> \o InheritLine(names)
                             \o <<Statement("append", "IUSE", <<name \o "2">>), Statement("export", "", <<"compile">>)>>
      [] shape = "early" -> <<Statement("export", "", <<"compile">>)>> \o InheritLine(names) \o <<Statement("set", "DEPEND", <<name>>)>>
      [] shape = "fails" -> InheritLine(names) \o <<Fail, Statement("set", "IUSE", <<name>>)>>

InheritLists == [p : {<<>>, <<"q">>, <<"q", "r">>, <<"r", "q">>}, q : {<<>>, <<"r">>, <<"p">>}, r : {<<>>, <<"q">>, <<"absent">>}]
EclassShapes == [p : {"late", "early"}, q : {"late", "early", "fails"}, r : {"late", "early"}]
InheritInputs ==
    {[kind |-> "inherit", lists |-> ls, shapes |-> sh, names |-> ns] :
        ls \in InheritLists, sh \in EclassShapes, ns \in {<<"p">>, <<"r", "p">>, <<"q", "p">>, <<"p", "q", "p">>}}

TreeOf(in) == [n \in {"p", "q", "r"} |-> EclassText(n, in.lists[n], in.shapes[n])]
EbuildText(in) == <<Statement("set", "IUSE", <<"own">>)>> \o InheritLine(in.names) \o <<Statement("append", "IUSE", <<"late">>)>>

InheritThem ==
    /\ input.kind = "inherit"
    /\ answer = NoAnswer
    /\ answer' = LET tree == TreeOf(input)
                     first == executeScript(tree, NewExecutor, EbuildText(input))
                 IN [kind |-> "inherit", e |-> first.e, err |-> first.err, final |-> FinalizeMetadata(first.e),
                     env |-> InheritAll(tree, [NewExecutor EXCEPT !.env = ("IUSE" :> <<"own">>)], input.names),
                     chain |-> EclassChain(tree, input.names)]
    /\ UNCHANGED input

-----------------------------------------------------------------------------
(* What an inherit line means, without a shell or an executor. *)

DirectOf(in, n) == IF n \in {"p", "q", "r"} THEN Range(in.lists[n]) ELSE {}
AfterSteps(in, k) ==
    LET all[i \in 0 .. k] == IF i = 0 THEN Range(in.names) ELSE all[i - 1] \cup UNION {DirectOf(in, n) : n \in all[i - 1]} IN all[k]
Inheriting(in) == AfterSteps(in, 4)
Reaches(in, n, m) == m \in AfterSteps([in EXCEPT !.names = SetToSeq(DirectOf(in, n))], 4)
OwnWords(in, n, v) ==
    CASE v = "IUSE" /\ in.shapes[n] = "late" -> <<n, n \o "2">>
      [] v = "DEPEND" /\ in.shapes[n] = "early" -> <<n>>
      [] OTHER -> <<>>
CannotInherit(in) == \E n \in Inheriting(in) : n = "absent" \/ in.shapes[n] = "fails"

\* An inherit line gives what the package manager specification says.  It fails just
\* when an eclass that it reaches is missing or fails.  Otherwise each of them was
\* inherited once, after those that it inherits and that do not inherit it; the
\* metadata are the words of every eclass in that order and the ebuild's own are
\* untouched until they are added; the phases embed the same eclasses in the same
\* order; a phase exported by all at their ends is that of the last one.
InheritedAsPMS ==
    answer.kind = "inherit" =>
        LET got == answer.e.inherited
            at(n) == CHOOSE i \in DOMAIN got : got[i] = n
            words(v) == FlattenSeq([i \in DOMAIN got |-> OwnWords(input, got[i], v)])
        IN /\ answer.err <=> CannotInherit(input)
           /\ ~answer.err =>
                /\ Range(got) = Inheriting(input) /\ Len(got) = Cardinality(Range(got))
                /\ \A n \in Range(got) : \A m \in DirectOf(input, n) : Reaches(input, m, n) \/ at(m) < at(n)
                /\ \A v \in MetadataVars : answer.e.acc[v] = words(v)
                /\ answer.e.env["IUSE"] = <<"own", "late">>
                /\ answer.final.env["IUSE"] = <<"own", "late">> \o words("IUSE")
                /\ answer.e.current = "" /\ "ECLASS" \notin DOMAIN answer.e.env
                /\ answer.env.e.env["IUSE"] = <<"own">>
                /\ answer.chain.result = got
                /\ (\A n \in Range(got) : input.shapes[n] = "late") => answer.e.exported["compile"] = Last(got)
           \* What an error leaves behind is not taken for the metadata of an eclass.
           /\ answer.err => answer.e.current = "" /\ answer.env.e.env["IUSE"] = <<"own">>

AcyclicTree(in) == \A n \in {"p", "q", "r"} : ~Reaches(in, n, n)
\* Refuted: an eclass that has failed is not inherited.  It counts as loaded, and the
\* next inherit of it does nothing and succeeds.
FailedInheritSeen ==
    answer.kind = "inherit" =>
        LET again == InheritAll(TreeOf(input), answer.e, <<"q">>) IN ~again.err => "q" \in Range(again.e.inherited)
\* Refuted: the metadata that are extracted hold the words of every eclass: they share
\* one variable with the ebuild and with each other, and the last assignment stays.
ShellMetadataFull ==
    answer.kind = "inherit" /\ AcyclicTree(input) /\ ~CannotInherit(input) =>
        Range(answer.final.env["IUSE"]) \subseteq Range(ExtractMetadata(TreeOf(input), EbuildText(input))["IUSE"])
\* Refuted: a phase is exported by the same eclass to the loader and to the phases:
\* where exports stand before the inherit line, the chain gives the last eclass, and
\* the executor gives the one whose export ran last.
OrdersAgree == answer.kind = "inherit" /\ ~answer.err => answer.e.exported = answer.chain.exported
\* Refuted: without a cache, eclasses that inherit each other are inherited once.
LoaderEnds == answer.kind = "inherit" => ~LoaderInherit(TreeOf(input), input.names, 9).overflow
\* Refuted: the manager credits an export to the eclass that makes it; after a nested
\* inherit it credits the nested one.
ManagerCredits ==
    answer.kind = "inherit" /\ AcyclicTree(input) /\ ~CannotInherit(input) =>
        LET m == Managed(TreeOf(input), NewMetadataManager, <<>>, InheritLine(<<input.names[1]>>)).m
        IN (\A n \in Inheriting(input) : Len(input.lists[n]) < 2) => m.exported = InheritAll(TreeOf(input), NewExecutor, <<input.names[1]>>).e.exported

-----------------------------------------------------------------------------
(* The cache of eclasses: three repositories that may have one eclass each, *)
(* with equal or different modification times.                              *)

Places == <<"gentoo", "local", "overlay">>
CacheInputs ==
    {[kind |-> "eclasscache", dirs |-> [l \in ds |-> IF t[l] = 0 THEN <<>> ELSE ("p" :> t[l])], repos |-> rs, masters |-> ms, later |-> lt] :
        ds \in {Range(Places), {"gentoo", "overlay"}}, t \in [Range(Places) -> 0 .. 2], rs \in {Places, <<"overlay", "gentoo">>, <<"gentoo", "overlay", "local">>},
        ms \in {<<>>, ("overlay" :> <<"gentoo">>), ("overlay" :> <<"local", "elsewhere">>)}, lt \in {"same", "gone", "newer"}}

\* What the files are when the cache is asked again.
LaterDirs(in) ==
    CASE in.later = "same" -> in.dirs
      [] in.later = "gone" -> [in.dirs EXCEPT !["overlay"] = <<>>]
      [] OTHER -> [in.dirs EXCEPT !["overlay"] = ("p" :> 3)]
CacheThem ==
    /\ input.kind = "eclasscache"
    /\ answer = NoAnswer
    /\ answer' = LET c == BuildCacheFromRepos(input.dirs, input.repos, input.masters)
                     v == ValidateEclass(c, LaterDirs(input), "p")
                 IN [kind |-> "eclasscache", c |-> c, added |-> AddRepoWithMasters(NewCache, input.dirs, "overlay", <<"local", "gentoo">>),
                     valid |-> v.valid, checked |-> v.c, fresh |-> Refresh(v.c, LaterDirs(input))]
    /\ UNCHANGED input

\* The order in which locations are searched: masters before what they are masters of.
LocationOrder(in) ==
    LET of(r) == IF r \in DOMAIN in.masters THEN SelectSeq(in.masters[r], LAMBDA m : m \in Range(in.repos)) ELSE <<>>
        all == FlattenSeq([i \in DOMAIN in.repos |-> IF in.repos[i] \in DOMAIN in.dirs THEN Append(of(in.repos[i]), in.repos[i]) ELSE <<>>])
    IN SelectSeq([i \in DOMAIN all |-> IF \E j \in 1 .. i - 1 : all[j] = all[i] THEN "" ELSE all[i]], LAMBDA l : l # "")
WinnerOf(dirs, order, master) ==
    LET has == SelectSeq(order, LAMBDA l : l \in DOMAIN dirs /\ dirs[l] # <<>>)
        copies == SelectSeq(has, LAMBDA l : l = master \/ master \notin Range(has)
                                              \/ (CHOOSE i \in DOMAIN order : order[i] = l) < (CHOOSE i \in DOMAIN order : order[i] = master)
                                              \/ dirs[l] # dirs[master])
    IN IF copies = <<>> THEN "" ELSE Last(copies)
PlaceOf(c) == IF "p" \in DOMAIN c.eclasses THEN c.eclasses["p"].loc ELSE ""

\* An eclass is taken from the last repository that has one of its own, where copies
\* of the master's with its time stamp do not count; a changed or missing file is not
\* valid; and a refreshed cache is what a new one would be.
CacheServesLast ==
    answer.kind = "eclasscache" =>
        LET order == LocationOrder(input)
            master == IF input.repos[1] \in DOMAIN input.dirs THEN input.repos[1] ELSE "none"
        IN /\ PlaceOf(answer.c) = WinnerOf(input.dirs, order, master)
           /\ answer.c.locations = order
           /\ PlaceOf(answer.added) = WinnerOf(input.dirs, <<"local", "gentoo", "overlay">>, answer.added.master)
           /\ PlaceOf(answer.fresh) = WinnerOf(LaterDirs(input), order, master)
           /\ answer.valid <=> PlaceOf(answer.c) # "" /\ (PlaceOf(answer.c) = "overlay" => LaterDirs(input) = input.dirs)
           /\ ~answer.valid /\ PlaceOf(answer.checked) # "" => input.later = "newer"
\* Refuted: every lookup finds the same file.
OneEclassPerName ==
    answer.kind = "eclasscache" /\ PlaceOf(answer.c) # "" => FindEclass(input.dirs, input.repos, "p")[1] = PlaceOf(answer.c)

-----------------------------------------------------------------------------
(* The loops over ABIs and over pythons, and the edits of compiler flags. *)

\* The shell, the environment and the process at the start of a phase: the fields of
\* the environment are in the shell, too.
Helpers(bash, os) ==
    [bash |-> bash, extra |-> <<>>, field |-> Restrict(bash, DOMAIN bash \cap (FieldVars \cup {"WORKDIR", "USE"})), os |-> os, live |-> TRUE, libDir |-> "lib64"]
AtWork(dir, use, more) == ("WORKDIR" :> <<"w">>) @@ ("BUILD_DIR" :> dir) @@ ("USE" :> use) @@ more

AbiInputs ==
    {[kind |-> "abis", h |-> Helpers(AtWork(dir, us, [CFLAGS |-> cf, LDFLAGS |-> <<>>, MULTILIB_ABIS |-> ab, CHOST |-> ch]), os), maps |-> ms, body |-> bd] :
        cf \in {<<"-O2">>, <<>>}, ab \in {<<>>, <<"amd64">>, <<"x86">>, <<"x86", "amd64">>, <<"amd64", "x86">>, <<"none">>},
        us \in {<<>>, <<"abi_x86_64", "abi_x86_32">>, <<"abi_x86_32">>}, ch \in {<<>>, <<"x86">>}, dir \in {<<>>, <<"b">>},
        os \in {<<>>, [CFLAGS |-> <<"-O3">>]}, ms \in {<<"amd64", "x86">>, <<"x86", "amd64">>}, bd \in {"tool", "function", "append", "fail"}}
PythonInputs ==
    {[kind |-> "python", h |-> Helpers(AtWork(dir, us, [PYTHON_COMPAT |-> co, PYTHON_TARGETS |-> ta, PYTHON_SINGLE_TARGET |-> si]), <<>>), paths |-> pa, body |-> bd] :
        co \in {<<>>, <<"python3_11", "python3_13">>, <<"pypy", "python3_12">>}, ta \in {<<>>, <<"python3_11", "python3_12">>, <<"pypy">>},
        si \in {<<>>, <<"python3_12">>}, us \in {<<>>, <<"python_targets_python3_13", "python_single_target_python3_13">>, <<"python_targets_python3_11", "python_targets_python3_13">>},
        dir \in {<<>>, <<"b">>}, pa \in {{}, {"python3_11"}, {"python3_11", "python3_13"}}, bd \in {"tool", "function", "fail"}}
FlagEdits == {"append", "appendcpp", "filter", "filterglob", "lfs", "replace", "strip", "unsupported"}
FlagInputs ==
    {[kind |-> "eclassflags", h |-> Helpers([CFLAGS |-> cf, CXXFLAGS |-> <<"-O2">>], os), edits |-> <<a, b, c>>, accepts |-> ac, budget |-> bu] :
        cf \in {<<>>, <<"-fx">>, <<"-O2", "-fx", "-D_LFS">>}, os \in {<<>>, [CFLAGS |-> <<"-O3", "-fx">>]}, a \in FlagEdits, b \in FlagEdits, c \in {"append", "filter", "replace"},
        ac \in {[CC |-> {"-O2", "-fx", "-fy"}, CXX |-> {"-O2"}], [CC |-> {"-O2"}, CXX |-> {"-O2"}]}, bu \in {1, 9}}

FxPattern == [lit |-> "-fx", star |-> {}, glob |-> {}]
FPattern == [lit |-> "-f?", star |-> {}, glob |-> {"-fx", "-fy"}]
EditFlags(in, h, edit) ==
    CASE edit = "append" -> AppendFlags(h, <<"-fy">>)
      [] edit = "appendcpp" -> appendToEnvVar(h, "CPPFLAGS", <<"-D_LFS">>)
      [] edit = "filter" -> FilterFlags(h, <<FxPattern>>)
      [] edit = "filterglob" -> filterFromEnvVar(h, "CFLAGS", <<FPattern>>)
      [] edit = "lfs" -> FilterLfsFlags(h)
      [] edit = "replace" -> ReplaceFlagsImpl(h, FxPattern, "-fy")
      [] edit = "strip" -> StripFlags(h)
      [] edit = "unsupported" -> StripUnsupportedFlags(h, in.accepts, in.budget)

LoopOverABIs ==
    /\ input.kind = "abis" /\ answer = NoAnswer
    /\ answer' = [kind |-> "abis", r |-> multilibForeachABIDo(input.h, input.maps, input.body), libs |-> MultilibDolibs(setupABIEnvironment(input.h, "x86").h)]
    /\ UNCHANGED input
LoopOverPythons ==
    /\ input.kind = "python" /\ answer = NoAnswer
    /\ answer' = [kind |-> "python", r |-> PythonForeachImpl(input.h, input.body), setup |-> PythonR1PkgSetup(input.h),
                  single |-> PythonSingleR1PkgSetup(input.h, input.paths), one |-> PythonSetup(input.h, input.paths),
                  any |-> PythonAnyR1PkgSetup(input.h, input.paths), impls |-> PythonSetImpls(input.h)]
    /\ UNCHANGED input
EditThem ==
    /\ input.kind = "eclassflags" /\ answer = NoAnswer
    /\ answer' = LET st[i \in 0 .. 3] == IF i = 0 THEN input.h ELSE EditFlags(input, st[i - 1], input.edits[i]) IN [kind |-> "eclassflags", st |-> st]
    /\ UNCHANGED input

\* Every round of a loop has its own ABI and directory, the flags of the start with
\* those of its ABI and with nobody else's, and a loop that succeeds leaves the flags
\* and the ABI of the start.  For the flags, the one ABI that has some must be last,
\* and where the body is a function the host must be known to more than the shell.
RoundsOfABIs ==
    answer.kind = "abis" =>
        LET abis == getEnabledABIs(input.h, input.maps)
            views == answer.r.views
            flagged == {i \in DOMAIN abis : ABIDefinition(input.h, abis[i].name)[1].cflags # <<>>}
            flagsLast == /\ flagged \subseteq {Len(abis)}
                         /\ input.body \in {"tool", "fail"} \/ (input.body = "function" /\ getEnvVar(input.h, "CHOST") = <<>>)
        IN /\ \A i \in DOMAIN views : views[i].ABI = <<abis[i].name>> /\ views[i].BUILD_DIR = <<"w", "build", abis[i].name>>
           /\ ~answer.r.err =>
                /\ Len(views) = Len(abis)
                /\ \A v \in {"ABI", "CFLAGS", "LDFLAGS"} : ToMap(answer.r.h, v) = getEnvVar(input.h, v)
                /\ GetLibdir(answer.r.h) = GetLibdir(input.h)
           /\ flagsLast /\ getEnvVar(input.h, "CFLAGS") = ToMap(input.h, "CFLAGS") =>
                \A i \in DOMAIN views :
                    /\ views[i].CFLAGS = getEnvVar(input.h, "CFLAGS") \o ABIDefinition(input.h, abis[i].name)[1].cflags
                    /\ views[i].LDFLAGS = ABIDefinition(input.h, abis[i].name)[1].ldflags

\* Every round has its own python and directory; a package is set up only for pythons
\* that it is compatible with; a failed export leaves the python of before.
RoundsOfPythons ==
    answer.kind = "python" =>
        LET targets == getPythonTargets(input.h)
            compat == Range(getEnvVar(input.h, "PYTHON_COMPAT"))
            views == answer.r.views
            dir == IF getEnvVar(input.h, "BUILD_DIR") # <<>> THEN getEnvVar(input.h, "BUILD_DIR") ELSE <<"w", "build">>
        IN /\ \A i \in DOMAIN views : views[i].EPYTHON = <<targets[i]>> /\ views[i].BUILD_DIR = Append(dir, targets[i])
           /\ ~answer.r.err => Len(views) = Len(targets)
           /\ ~answer.r.err /\ getEnvVar(input.h, "BUILD_DIR") # <<>> => getEnvVar([answer.r.h EXCEPT !.live = FALSE], "BUILD_DIR") = getEnvVar(input.h, "BUILD_DIR")
           /\ answer.setup => targets # <<>> /\ Range(targets) \subseteq compat
           /\ ~answer.single.err /\ getEnvVar(input.h, "PYTHON_SINGLE_TARGET") = <<>> /\ compat # {} => ToMap(answer.single.h, "EPYTHON")[1] \in compat
           /\ answer.any.err => input.paths \cap {"python3_11", "python3_12"} = {}
           /\ answer.single.err => answer.single.h = input.h

\* A flag that was filtered out is gone until something brings it back, as long as
\* flags are left or the process has none of its own; edits invent no flags; what the
\* compiler does not take is gone; a replacement neither loses nor adds a flag.
EditedAsTold ==
    answer.kind = "eclassflags" =>
        LET flags(i, v) == getFlagVar(answer.st[i], v)
            plain == input.h.os = <<>>
            new(i) == CASE input.edits[i] \in {"append", "replace"} -> {"-fy"} [] OTHER -> {}
        IN \A i \in 1 .. 3 :
             /\ plain => Range(flags(i, "CFLAGS")) \subseteq Range(flags(i - 1, "CFLAGS")) \cup new(i)
             /\ plain /\ input.edits[i] \in {"filter", "filterglob"} => \A j \in i .. 3 : ~IsFlag(answer.st[j], FxPattern)
             /\ input.edits[i] = "filter" /\ answer.st[i].field["CFLAGS"] # <<>> => GetFlag(answer.st[i], FxPattern) = ""
             /\ input.edits[i] = "unsupported" => Range(answer.st[i].field["CFLAGS"]) \subseteq input.accepts.CC
             /\ input.edits[i] = "replace" => "-fx" \notin Range(flags(i, "CFLAGS")) /\ Len(flags(i, "CFLAGS")) = Len(flags(i - 1, "CFLAGS"))
             /\ input.edits[i] = "append" => Last(answer.st[i].field["CFLAGS"]) = "-fy" /\ Last(answer.st[i].field["CXXFLAGS"]) = "-fy"

\* Eclasses are found, inherited and run as the package manager specification says:
\* what InheritedAsPMS and CacheServesLast state, of eclass/executor.go and
\* eclass/cache.go, and for the loops and flag edits of the eclasses written in Go
\* (eclass_multilib.go, eclass_python_single.go, eclass_flag_o_matic.go) RoundsOfABIs,
\* RoundsOfPythons and EditedAsTold: every round sees its own flags and leaves
\* nothing behind.
EclassesAsPMS == InheritedAsPMS /\ CacheServesLast /\ RoundsOfABIs /\ RoundsOfPythons /\ EditedAsTold

\* Refuted: eclass_multilib_build.go restores the environment: not after an error.
RestoredAfterFailure ==
    answer.kind = "abis" => \A v \in {"ABI", "CFLAGS", "LDFLAGS", "BUILD_DIR"} : ToMap(answer.r.h, v) \in {ToMap(input.h, v), getEnvVar(input.h, v)}
\* Refuted: every ABI is built with its own flags, in any order of the ABIs.
FlagsPerABI ==
    answer.kind = "abis" => \A i \in DOMAIN answer.r.views : LET v == answer.r.views[i] IN v.ABI = <<"amd64">> => "-m32" \notin Range(v.CFLAGS)
\* Refuted: append-flags reaches what is built after a loop.
AppendedReachTools ==
    answer.kind = "abis" /\ ~answer.r.err => "-fz" \in Range(ToMap(AppendFlags(answer.r.h, <<"-fz">>), "CFLAGS"))
\* Refuted: the libraries of the ABIs go to different directories.
LibdirsDisjoint ==
    answer.kind = "abis" => \A i, j \in DOMAIN answer.r.views : LET v == answer.r.views IN v[i].ABI # v[j].ABI => v[i].libdir # v[j].libdir
\* Refuted: a filtered flag stays away: an empty field shows the process's flags.
FilteredStays ==
    answer.kind = "eclassflags" => \A i \in 1 .. 3 : input.edits[i] = "filter" => "-fx" \notin Range(getFlagVar(answer.st[i], "CFLAGS"))
\* Refuted: eclass_flag_o_matic.go:541 "Returns exit code 0 if all flags are supported".
TestFlagsAllOrNothing ==
    answer.kind = "eclassflags" => \A fs \in {<<"-O2", "-fz">>, <<"-fy", "-O2">>} :
        /\ TestFlags(input.accepts.CC, fs).ok => Range(fs) \subseteq input.accepts.CC
        /\ TestFlagsAll(input.accepts, fs).ok => Range(fs) \subseteq input.accepts.CXX
\* Refuted: a package that is set up for any python is compatible with it.
AnyIsCompatible ==
    answer.kind = "python" /\ ~answer.any.err => ToMap(answer.any.h, "EPYTHON")[1] \in Range(getEnvVar(input.h, "PYTHON_COMPAT"))

-----------------------------------------------------------------------------
EclassesNext == CommandsNext \/ InheritThem \/ CacheThem \/ LoopOverABIs \/ LoopOverPythons \/ EditThem
EclassesInit == CommandsInit \/ (input \in InheritInputs \cup CacheInputs \cup AbiInputs \cup PythonInputs \cup FlagInputs /\ answer = NoAnswer)
EclassesSpec == EclassesInit /\ [][EclassesNext]_vars

-----------------------------------------------------------------------------
(* Which distfiles are downloaded. *)


Uri(toks) == [k |-> "uri", toks |-> toks, flag |-> "", kids |-> <<>>]
SourcesIn(k, f, kids) == [k |-> k, toks |-> <<>>, flag |-> f, kids |-> kids]
Renamed(tok, stem, var) == Uri(<<tok, Mark("->"), Tk("word", stem, "", var)>>)

Src == Uri(<<Tk("url", "src", "site", "PV")>>)
SrcOfGnu == Uri(<<Tk("mirror", "src", "gnu", "PV")>>)
Gone == Uri(<<Tk("url", "gone", "site", "PV")>>)
Uris == {Src, SrcOfGnu, Gone, Renamed(Tk("url", "x", "site", ""), "src", "PV"), Uri(<<Tk("url", "doc", "site", "MY_PV")>>),
         Renamed(Tk("mirror", "x", "gnu", "MY_PV"), "doc", "MY_PV"), Uri(<<Tk("mirror", "doc", "lost", "PV")>>)}
Guarded == {SourcesIn(k, "f", <<u>>) : k \in {"if", "unless"}, u \in Uris} \cup {SourcesIn("all", "", <<u, SrcOfGnu>>) : u \in Uris}
NestedUris == {SourcesIn("if", "f", <<SourcesIn(k, "g", <<u>>), SrcOfGnu>>) : k \in {"if", "unless"}, u \in Uris}
Signature == SourcesIn("if", "verify-sig", <<Uri(<<Tk("url", "sig", "site", "PV")>>)>>)
SourceItems == Uris \cup Guarded \cup NestedUris \cup {Signature}
SourceStrings == {<<e>> : e \in SourceItems} \cup {<<e, f>> : e \in SourceItems, f \in Uris \cup {Signature, SourcesIn("unless", "g", <<Src>>)}}

TextOf(es) == FlattenSeq([i \in DOMAIN es |-> tokenizeSrcURI(es[i])])

AssignSrcURI(op, es, runs) == [op |-> op, value |-> TextOf(es), runs |-> runs]
\* How an ebuild may come to its SRC_URI: one assignment, the last part added, or an
\* assignment in a branch that is not taken before it.
SourceLines(shape, es) ==
    CASE shape = "plain" -> <<AssignSrcURI("set", es, TRUE)>>
      [] shape = "added" -> <<AssignSrcURI("set", Front(es), TRUE), AssignSrcURI("append", <<Last(es)>>, TRUE)>>
      [] shape = "branch" -> <<AssignSrcURI("set", <<Gone>>, FALSE), AssignSrcURI("set", es, TRUE)>>

MLine(type, stem, version) == [type |-> type, name |-> [stem |-> stem, var |-> VersionText(version)], sum |-> stem \o ToString(version)]
GoodLines == <<MLine("DIST", "doc", 1), MLine("DIST", "src", 1), MLine("DIST", "doc", 2), MLine("DIST", "sig", 2), MLine("DIST", "src", 2), MLine("AUX", "patch", 2)>>
Manifests == [good |-> [there |-> TRUE, lines |-> GoodLines], none |-> [there |-> FALSE, lines |-> <<>>],
              bad |-> [there |-> TRUE, lines |-> Append(GoodLines, MLine("unknown", "x", 1))],
              twice |-> [there |-> TRUE, lines |-> Append(GoodLines, [MLine("DIST", "src", 2) EXCEPT !.sum = "other"])]]

SourceInput(shape, es, lines, fails, m) == [kind |-> "sources", shape |-> shape, es |-> es, lines |-> lines, fails |-> fails, manifest |-> m]
SourceInputs ==
    {SourceInput("plain", es, SourceLines("plain", es), fails, "good") : es \in SourceStrings, fails \in BOOLEAN}
      \cup {SourceInput(sh, <<e, f>>, SourceLines(sh, <<e, f>>), fails, "good") : sh \in {"added", "branch"}, e \in SourceItems, f \in {Src, Signature}, fails \in BOOLEAN}
      \cup {SourceInput("plain", es, SourceLines("plain", es), FALSE, m) : es \in {<<>>, <<Src>>, <<Gone, Src>>, <<Signature, Src>>}, m \in DOMAIN Manifests}
      \* A conditional without its group, a group too many or too few, an arrow to nowhere.
      \cup {SourceInput("broken", <<Src>>, <<[op |-> "set", value |-> ts, runs |-> TRUE]>>, FALSE, "good") :
              ts \in {<<Tk("if", "f", "", "")>> \o Src.toks, Src.toks \o <<Tk("unless", "f", "", "")>>,
                      <<Mark("(")>> \o Src.toks, Src.toks \o <<Mark("->")>>, <<Tk("other", "y", "", "")>> \o Src.toks}}
      \cup {SourceInput("stray", <<Src>>, <<[op |-> "set", value |-> <<Mark(")")>> \o Src.toks, runs |-> TRUE]>>, FALSE, "good")}

SourceFlags == {{}, {"f"}, {"f", "g"}, {"g", "verify-sig"}}
MirrorLines == <<[name |-> "gnu", urls |-> <<"old">>], [name |-> "gnu", urls |-> <<"m1", "m2">>], [name |-> "lost", urls |-> <<>>]>>

ResolveSources ==
    /\ input.kind = "sources"
    /\ answer = NoAnswer
    /\ answer' = LET mirrors == ParseThirdPartyMirrors(MirrorLines)
                     text == [lines |-> input.lines, fails |-> input.fails]
                     older == [lines |-> SourceLines("plain", <<Src>>), fails |-> FALSE]
                     m == Manifests[input.manifest]
                 IN [kind |-> "sources",
                     build |-> [on \in SourceFlags |-> fetchDistfiles(mirrors, text, 2, on, m)],
                     older |-> fetchDistfiles(mirrors, older, 1, {}, m),
                     fetch |-> [v \in 0 .. 3 |-> fetchPackageDistfiles(mirrors, <<older, text>>, v, m)],
                     direct |-> [on \in SourceFlags |-> FetchSrcURI(EvaluateSrcURI(text, 2).value, ParseManifest(m), [all |-> FALSE, on |-> on], 2)]]
    /\ UNCHANGED input

-----------------------------------------------------------------------------
(* What SRC_URI means, by its trees. *)

RECURSIVE WantedUris(_, _)
WantedUris(e, on) ==
    CASE e.k = "uri" -> <<e>>
      [] e.k = "if" /\ e.flag \notin on -> <<>>
      [] e.k = "unless" /\ e.flag \in on -> <<>>
      [] OTHER -> FlattenSeq([i \in DOMAIN e.kids |-> WantedUris(e.kids[i], on)])
WantedOf(es, on) == FlattenSeq([i \in DOMAIN es |-> WantedUris(es[i], on)])
FileOf(u) == [stem |-> Last(u.toks).v, var |-> IF Last(u.toks).var = "" THEN "" ELSE VersionText(2)]
HostsOf(u) == IF u.toks[1].t = "mirror" /\ u.toks[1].host = "gnu" THEN <<"m1", "m2">> ELSE <<u.toks[1].host>>

SumsOf(m, n) == {m.lines[i].sum : i \in {j \in DOMAIN m.lines : m.lines[j].type = "DIST" /\ m.lines[j].name = n}}
LiteralText(in) == in.shape \in {"plain", "added"} /\ \A i \in DOMAIN in.lines : \A j \in DOMAIN in.lines[i].value : in.lines[i].value[j].var # "MY_PV"
\* The strings whose meaning the service can know: the interpreter sourced the ebuild,
\* or the text is all there is to it.
Knowable(in) == in.es # <<>> /\ in.manifest \in {"good", "none"} /\ (~in.fails \/ LiteralText(in))
NamesIn(files) == {files[i].name : i \in DOMAIN files}

\* A build downloads what SRC_URI says.  The files are those whose conditions the
\* USE flags meet and that the Manifest lists, each once and with its checksum; a
\* file may come from every address that the wanted entries of its name give, in
\* their order and with the mirrors of the last line of thirdpartymirrors; the same
\* holds when the interpreter fails on an ebuild whose text says it all, and of a
\* string that cannot be parsed nothing that is needed is lost.  grpm fetch
\* downloads what a build without USE flags does, of the version asked for or of the
\* highest, and the stricter SrcURIFetcher the same files unless one is not listed.
SourcesAsPMS ==
    answer.kind = "sources" =>
      /\ \A on \in SourceFlags :
            LET got == answer.build[on]
                m == Manifests[input.manifest]
                wanted == WantedOf(input.es, on)
                names == {FileOf(wanted[i]) : i \in DOMAIN wanted}
                listed == {n \in names : SumsOf(m, n) # {}}
                hosts(n) == LET of == SelectSeq(wanted, LAMBDA u : FileOf(u) = n) IN FlattenSeq([i \in DOMAIN of |-> HostsOf(of[i])])
            IN /\ got.err <=> input.manifest = "bad"
               /\ Knowable(input) /\ input.shape \notin {"broken", "stray"} =>
                    /\ NamesIn(got.files) = listed /\ Len(got.A) = Cardinality(listed)
                    /\ \A i \in DOMAIN got.files :
                          LET d == got.files[i]
                          IN d.sum \in SumsOf(m, d.name) /\ [j \in DOMAIN d.uris |-> d.uris[j].host] = hosts(d.name)
                    /\ ~input.fails =>
                          /\ answer.direct[on].err <=> listed # names
                          /\ ~answer.direct[on].err => NamesIn(answer.direct[on].files) = names
               /\ Knowable(input) /\ input.shape # "stray" => listed \subseteq Range(got.A)
      /\ input.manifest \notin {"bad", "none"} =>
            /\ answer.fetch[2].files = answer.build[{}].files /\ answer.fetch[0] = answer.fetch[2]
            /\ answer.fetch[1].files = answer.older.files
            /\ verifyDistfiles(answer.fetch[1].files, [n \in NamesIn(answer.older.files) |-> CHOOSE s \in SumsOf(Manifests[input.manifest], n) : TRUE])

\* Refuted: distfile/service.go:91 "This handles cases where eclass loading fails": not a file
\* named by a variable of the ebuild, nor an assignment in a branch.
RawIsEnough ==
    answer.kind = "sources" /\ input.fails => LET w == WantedOf(input.es, {}) IN
        \A i \in DOMAIN w : SumsOf(Manifests[input.manifest], FileOf(w[i])) # {} => FileOf(w[i]) \in Range(answer.build[{}].A)
\* Refuted: a file that the Manifest does not list stops the build: it is left out.
UnlistedRefused ==
    answer.kind = "sources" /\ ~input.fails /\ input.shape = "plain" => LET w == WantedOf(input.es, {}) IN
        answer.build[{}].err \/ \A i \in DOMAIN w : FileOf(w[i]) \in Range(answer.build[{}].A)
\* Refuted: service.go:46 "filters manifest entries to only include version-specific files":
\* an ebuild without sources gets those of every version.
OnlyOwnFiles ==
    answer.kind = "sources" /\ ~input.fails /\ input.shape = "plain" => \A n \in Range(answer.build[{}].A) : n.var = VersionText(2)
\* Refuted: after grpm fetch a build finds everything: flags are unknown to it.
FetchedIsEnough ==
    answer.kind = "sources" => \A on \in SourceFlags : NamesIn(answer.build[on].files) \subseteq NamesIn(answer.fetch[2].files)
\* Refuted: grpm fetch of a version that is not in the tree fails: it downloads the
\* whole Manifest, signatures included.
MissingVersionRefused == answer.kind = "sources" => answer.fetch[3].err
\* Refuted: an unbalanced string is refused: what follows the parenthesis is ignored.
UnbalancedRefused == answer.kind = "sources" /\ input.shape = "stray" => Range(answer.build[{}].A) # {}
\* Refuted: A names every archive once: a Manifest may list one twice.
ArchivesOnce == answer.kind = "sources" => \A on \in SourceFlags : LET A == answer.build[on].A IN Len(A) = Cardinality(Range(A))

-----------------------------------------------------------------------------
SourcesNext == EclassesNext \/ ResolveSources
SourcesInit == EclassesInit \/ (input \in SourceInputs /\ answer = NoAnswer)
SourcesSpec == SourcesInit /\ [][SourcesNext]_vars
=============================================================================
