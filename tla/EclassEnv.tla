------------------------------ MODULE EclassEnv ------------------------------
(***************************************************************************)
(* What the eclasses written in Go do to the environment of a build        *)
(* (internal/ebuild: eclass_helpers.go, eclass_flag_o_matic.go,            *)
(* eclass_multilib*.go, eclass_python_*.go).                               *)
(*                                                                         *)
(* A variable lives in up to four places, and a record h holds them: bash, *)
(* the shell that called the helper; extra, ExtraVars of the Environment;  *)
(* field, the fields of the Environment; os, the process.  live: the       *)
(* helper still sees the shell (runtimeEnv).  A value is a sequence of     *)
(* words and an empty one passes for unset.  h.libDir is the directory     *)
(* that econf and dolib use.  What a tool sees is ToMap.                   *)
(***************************************************************************)
EXTENDS Integers, Sequences, FiniteSets, SequencesExt, Functions, TLC

WordsOf(f, v) == IF v \in DOMAIN f THEN f[v] ELSE <<>>
FirstSet(values) == LET set == SelectSeq(values, LAMBDA x : x # <<>>) IN IF set = <<>> THEN <<>> ELSE Head(set)

\* environment.go: what is set by name hides the field.
ToMap(h, v) == IF v \in DOMAIN h.extra THEN h.extra[v] ELSE WordsOf(h.field, v)
SetVar(h, v, x) == [h EXCEPT !.extra = (v :> x) @@ @]
\* helpers_toolchain.go
getEnvVar(h, v) == FirstSet(<<IF h.live THEN WordsOf(h.bash, v) ELSE <<>>, ToMap(h, v), WordsOf(h.os, v)>>)
\* eclass_python_utils.go
setEnvVar(h, v, x) == SetVar(h, v, x)
isUseEnabled(h, flag) == flag \in Range(getEnvVar(h, "USE"))

-----------------------------------------------------------------------------
(* flag-o-matic.  A pattern [lit, star, glob] is its text, the flags that it   *)
(* matches by a star at its end, and those it matches by other wildcards only. *)

FieldVars == {"CFLAGS", "CXXFLAGS", "LDFLAGS"}
matchFlagPattern(f, p) == f = p.lit \/ f \in p.star
matchGlobPattern(f, p) == f = p.lit \/ f \in p.star \cup p.glob
filterFlagList(flags, patterns) == SelectSeq(flags, LAMBDA f : \A p \in Range(patterns) : ~matchFlagPattern(f, p))

\* An empty field shows the flags of the process again.
getFlagVar(h, v) == FirstSet(<<IF v \in FieldVars THEN WordsOf(h.field, v) ELSE ToMap(h, v), WordsOf(h.os, v)>>)
setFlagVar(h, v, x) == IF v \in FieldVars THEN [h EXCEPT !.field = (v :> x) @@ @] ELSE SetVar(h, v, x)

AppendField(h, v, flags) == [h EXCEPT !.field = (v :> WordsOf(@, v) \o flags) @@ @]
AppendFlags(h, flags) == AppendField(AppendField(h, "CFLAGS", flags), "CXXFLAGS", flags)
appendToEnvVar(h, v, flags) == IF flags = <<>> THEN h ELSE setFlagVar(h, v, getFlagVar(h, v) \o flags)
FilterField(h, v, patterns) == [h EXCEPT !.field = (v :> filterFlagList(WordsOf(@, v), patterns)) @@ @]
FilterFlags(h, patterns) == FilterField(FilterField(h, "CFLAGS", patterns), "CXXFLAGS", patterns)
filterFromEnvVar(h, v, patterns) ==
    setFlagVar(h, v, SelectSeq(getFlagVar(h, v), LAMBDA f : \A p \in Range(patterns) : ~matchGlobPattern(f, p)))
lfsFlags == <<"-D_LFS">>
Literal(f) == [lit |-> f, star |-> {}, glob |-> {}]
FilterLfsFlags(h) == filterFromEnvVar(FilterFlags(h, <<Literal(lfsFlags[1])>>), "CPPFLAGS", <<Literal(lfsFlags[1])>>)

ReplaceIn(h, v, p, new) ==
    setFlagVar(h, v, LET old == getFlagVar(h, v) IN [i \in DOMAIN old |-> IF matchGlobPattern(old[i], p) THEN new ELSE old[i]])
ReplaceFlagsImpl(h, p, new) == ReplaceIn(ReplaceIn(h, "CFLAGS", p, new), "CXXFLAGS", p, new)

\* The registered strip-flags removes the optimisation and the processor.
StripPatterns == <<[lit |-> "-O*", star |-> {"-O2", "-O3"}, glob |-> {}], [lit |-> "-march=*", star |-> {"-march=n"}, glob |-> {}]>>
StripFlags(h) == FilterFlags(h, StripPatterns)

\* A compiler accepts the flags of one set.  Only "budget" trials fit into the time
\* limit, and those that do not fit are failures.
testCompilerFlags(accepts, flags, budget) ==
    [out |-> SelectSeq(SubSeq(flags, 1, IF budget < Len(flags) THEN budget ELSE Len(flags)), LAMBDA f : f \in accepts),
     left |-> IF budget < Len(flags) THEN 0 ELSE budget - Len(flags)]
StripUnsupportedFlags(h, accepts, budget) ==
    LET c == testCompilerFlags(accepts.CC, getFlagVar(h, "CFLAGS"), budget)
        cxx == testCompilerFlags(accepts.CXX, getFlagVar(h, "CXXFLAGS"), c.left)
    IN setFlagVar(setFlagVar(h, "CFLAGS", c.out), "CXXFLAGS", cxx.out)
TestFlags(accepts, flags) == LET ok == testCompilerFlags(accepts, flags, Len(flags)).out IN [ok |-> ok # <<>>, out |-> ok]
TestFlagsAll(accepts, flags) ==
    LET cc == testCompilerFlags(accepts.CC, flags, Len(flags)).out
        both == SelectSeq(testCompilerFlags(accepts.CXX, flags, Len(flags)).out, LAMBDA f : f \in Range(cc))
    IN [ok |-> both # <<>>, out |-> both]

IsFlag(h, p) == \E v \in {"CFLAGS", "CXXFLAGS"} : \E f \in Range(getFlagVar(h, v)) : matchGlobPattern(f, p)
GetFlag(h, p) == LET found == SelectSeq(getFlagVar(h, "CFLAGS"), LAMBDA f : matchGlobPattern(f, p)) IN IF found = <<>> THEN "" ELSE Head(found)

-----------------------------------------------------------------------------
(* multilib *)

ABIOf(name, libdir, flags, ldflags) == [name |-> name, libDir |-> libdir, cflags |-> flags, ldflags |-> ldflags]
\* Two of the five architectures; arm64 and ppc64 have pairs of the same form.
CommonABIs ==
    [amd64 |-> <<ABIOf("amd64", "lib64", <<>>, <<>>), ABIOf("x86", "lib32", <<"-m32">>, <<"-m32">>)>>,
     x86 |-> <<ABIOf("x86", "lib", <<>>, <<>>)>>]
archOrder == <<"amd64", "x86">>

\* CHOST is the word of the architecture it names; anything else passes for amd64.
getCurrentArch(h) ==
    FirstSet(<<SelectSeq(getEnvVar(h, "DEFAULT_ABI"), LAMBDA a : a \in DOMAIN CommonABIs),
               SelectSeq(getEnvVar(h, "CHOST"), LAMBDA a : a \in DOMAIN CommonABIs), <<"amd64">>>>)[1]
getDefaultABI(h) ==
    FirstSet(<<getEnvVar(h, "DEFAULT_ABI"), SelectSeq(getEnvVar(h, "CHOST"), LAMBDA a : a \in DOMAIN CommonABIs), <<"default">>>>)[1]
NamedIn(arch, name) == SelectSeq(CommonABIs[arch], LAMBDA a : a.name = name)
ABIDefinition(h, name) == FlattenSeq(<<NamedIn(getCurrentArch(h), name)>> \o [i \in DOMAIN archOrder |-> NamedIn(archOrder[i], name)])

VarOf(prefix, abi) == prefix \o abi
computeABILibdir(h, abi) ==
    LET set == getEnvVar(h, VarOf("LIBDIR_", abi))
        known == ABIDefinition(h, abi)
    IN IF set # <<>> THEN set[1] ELSE IF known # <<>> THEN known[1].libDir ELSE "lib"
GetABICflags(h, abi) ==
    LET set == getEnvVar(h, VarOf("CFLAGS_", abi))
        known == ABIDefinition(h, abi)
    IN IF set # <<>> \/ known = <<>> THEN set ELSE known[1].cflags
\* get_libdir does not ask for the ABI; multilib_dolibs changes the answer for good.
GetLibdir(h) == h.libDir
computeLibdir(h) ==
    IF getEnvVar(h, "ABI") # <<>> THEN computeABILibdir(h, getEnvVar(h, "ABI")[1])
    ELSE FirstSet(<<getEnvVar(h, "LIBDIR"), IF getEnvVar(h, "CHOST") = <<"amd64">> THEN <<"lib64">> ELSE <<"lib">>>>)[1]
MultilibDolibs(h) == [h EXCEPT !.libDir = computeLibdir(h)]

appendVar(h, v, flags) == IF flags = <<>> THEN h ELSE setEnvVar(h, v, getEnvVar(h, v) \o flags)
setupABIEnvironment(h, name) ==
    LET abi == ABIDefinition(h, name)[1]
        named == setEnvVar(setEnvVar(h, "ABI", <<name>>), VarOf("LIBDIR_", name), <<abi.libDir>>)
    IN IF ABIDefinition(h, name) = <<>> THEN [h |-> h, err |-> TRUE]
       ELSE [h |-> appendVar(appendVar(named, "CFLAGS", abi.cflags), "LDFLAGS", abi.ldflags), err |-> FALSE]

\* maps: the architectures in the order in which the map yields them.
getEnabledABIs(h, maps) ==
    LET all(name) == FlattenSeq([i \in DOMAIN maps |-> NamedIn(maps[i], name)])
        names == getEnvVar(h, "MULTILIB_ABIS")
        byName == FlattenSeq([i \in DOMAIN names |-> all(names[i])])
        byFlag == (IF isUseEnabled(h, "abi_x86_64") THEN <<CommonABIs.amd64[1]>> ELSE <<>>)
                    \o (IF isUseEnabled(h, "abi_x86_32") THEN <<CommonABIs.amd64[2]>> ELSE <<>>)
        native == all(getDefaultABI(h))
    IN FirstSet(<<byName, byFlag, IF native = <<>> THEN <<>> ELSE <<Head(native)>>>>)
MultilibIsNativeABI(h) == getEnvVar(h, "ABI") \in {<<>>, <<getDefaultABI(h)>>}

\* What the body of a loop does: a helper or a program ("tool"); a function of the
\* ebuild, whose first helper takes the shell away from the loop ("function"); one that
\* appends to CFLAGS ("append"); one that fails in the last round ("fail").
View(h) == [v \in {"ABI", "CFLAGS", "LDFLAGS", "BUILD_DIR", "EPYTHON"} |-> ToMap(h, v)] @@ [libdir |-> <<GetLibdir(h)>>]
RunBody(h, body, last) ==
    [h |-> CASE body = "function" -> [h EXCEPT !.live = FALSE]
             [] body = "append" -> [AppendField(h, "CFLAGS", <<"-fx">>) EXCEPT !.live = FALSE]
             [] OTHER -> h,
     err |-> body = "fail" /\ last]
Round(st, h, body, last) ==
    LET r == RunBody(h, body, last) IN [h |-> r.h, err |-> r.err, views |-> Append(st.views, View(h))]

multilibForeachABIDo(h, maps, body) ==
    LET abis == getEnabledABIs(h, maps)
        buildDir(x, a) == IF getEnvVar(x, "WORKDIR") = <<>> THEN x
                          ELSE setEnvVar(x, "BUILD_DIR", getEnvVar(x, "WORKDIR") \o <<"build", a>>)
        one(st, i) == LET s == setupABIEnvironment(st.h, abis[i].name)
                      IN IF st.err THEN st
                         ELSE IF s.err THEN [st EXCEPT !.err = TRUE]
                         ELSE Round(st, buildDir(s.h, abis[i].name), body, i = Len(abis))
        r == FoldLeft(one, [h |-> h, err |-> FALSE, views |-> <<>>], [i \in DOMAIN abis |-> i])
        was(v) == getEnvVar(h, v)
        flags == setEnvVar(setEnvVar(setEnvVar(r.h, "ABI", was("ABI")), "CFLAGS", was("CFLAGS")), "LDFLAGS", was("LDFLAGS"))
    IN IF abis = <<>> THEN [h |-> h, err |-> TRUE, views |-> <<>>]
       ELSE IF r.err THEN r
       ELSE [r EXCEPT !.h = IF was("BUILD_DIR") = <<>> THEN flags ELSE setEnvVar(flags, "BUILD_DIR", was("BUILD_DIR"))]

-----------------------------------------------------------------------------
(* python.  paths: the interpreters that are found; a name that is no python *)
(* cannot be parsed.                                                         *)

Pythons == {"python3_11", "python3_12", "python3_13"}
PythonExport(h, impl) ==
    IF impl \notin Pythons THEN [h |-> h, err |-> TRUE]
    ELSE [h |-> setEnvVar(setEnvVar(h, "EPYTHON", <<impl>>), "PYTHON_SITEDIR", <<"site", impl>>), err |-> FALSE]
EnabledBy(h, prefix) == SelectSeq(getEnvVar(h, "PYTHON_COMPAT"), LAMBDA i : isUseEnabled(h, prefix \o i))
getPythonTargets(h) == FirstSet(<<EnabledBy(h, "python_targets_"), getEnvVar(h, "PYTHON_TARGETS")>>)
getPythonSingleTarget(h) == FirstSet(<<EnabledBy(h, "python_single_target_"), getEnvVar(h, "PYTHON_SINGLE_TARGET")>>)

PythonR1PkgSetup(h) ==
    getPythonTargets(h) # <<>> /\ Range(getPythonTargets(h)) \subseteq Range(getEnvVar(h, "PYTHON_COMPAT"))
PythonForeachImpl(h, body) ==
    LET targets == getPythonTargets(h)
        was == getEnvVar(h, "BUILD_DIR")
        dir(i) == IF was # <<>> THEN was \o <<targets[i]>> ELSE getEnvVar(h, "WORKDIR") \o <<"build", targets[i]>>
        one(st, i) == LET x == PythonExport(st.h, targets[i])
                      IN IF st.err THEN st
                         ELSE IF x.err THEN [st EXCEPT !.err = TRUE]
                         ELSE Round(st, setEnvVar(x.h, "BUILD_DIR", dir(i)), body, i = Len(targets))
        r == FoldLeft(one, [h |-> h, err |-> FALSE, views |-> <<>>], [i \in DOMAIN targets |-> i])
    IN IF targets = <<>> THEN [h |-> h, err |-> TRUE, views |-> <<>>]
       \* The command is looked up among the helpers, where no function of an ebuild is.
       ELSE IF body \in {"function", "append"} THEN [one([h |-> h, err |-> FALSE, views |-> <<>>], 1) EXCEPT !.err = TRUE]
       ELSE IF r.err \/ was = <<>> THEN r
       ELSE [r EXCEPT !.h = setEnvVar(@, "BUILD_DIR", was)]

Candidates == <<"python3_12", "python3_13", "python3_11">>
PythonSingleR1PkgSetup(h, paths) ==
    LET compat == getEnvVar(h, "PYTHON_COMPAT")
        found == SelectSeq(Candidates, LAMBDA c : c \in Range(compat) \cap paths)
        newest == IF compat = <<>> THEN <<"python3_12">> ELSE <<Last(compat)>>
    IN PythonExport(h, FirstSet(<<getPythonSingleTarget(h), found, newest>>)[1])
PythonSetup(h, paths) ==
    IF \E f \in Range(getEnvVar(h, "USE")) : f \in {"python_single_target_" \o i : i \in Pythons} THEN PythonSingleR1PkgSetup(h, paths)
    ELSE PythonExport(h, FirstSet(<<getEnvVar(h, "EPYTHON"), SelectSeq(Candidates, LAMBDA c : c \in paths), <<"python3_12">>>>)[1])
findAnyPythonImpl(h, paths) ==
    FirstSet(<<SelectSeq(getEnvVar(h, "PYTHON_COMPAT"), LAMBDA i : i \in Pythons \cap paths),
               SelectSeq(<<"python3_12", "python3_11">>, LAMBDA i : i \in paths)>>)
PythonAnyR1PkgSetup(h, paths) ==
    IF findAnyPythonImpl(h, paths) = <<>> THEN [h |-> h, err |-> TRUE] ELSE PythonExport(h, findAnyPythonImpl(h, paths)[1])
PythonSetImpls(h) ==
    LET compat == FirstSet(<<getEnvVar(h, "PYTHON_COMPAT"), <<"python3_12">>>>)
        supported == SelectSeq(<<"python3_11", "python3_12", "python3_13">>, LAMBDA i : i \in Range(compat))
    IN setEnvVar(h, "_PYTHON_SUPPORTED_IMPLS", FirstSet(<<supported, compat>>))
=============================================================================
