------------------------------ MODULE MCPolicy ------------------------------
(***************************************************************************)
(* The algorithms of MCLanguage, and those of Policy on every small        *)
(* configuration: two profiles, two versions of one package and few lines  *)
(* in each file.                                                           *)
(***************************************************************************)
EXTENDS MCLanguage, Policy

MCGlobs == "x*" :> {"x", "xy"}
MCBegins == {<<"xy", "x">>}

V(d, r) == Ver(<<d>>, 0, <<>>, r)
PkgAtom(op, cat, name, ver, slot) == [op |-> op, cat |-> cat, name |-> name, ver |-> ver, slot |-> slot]
PlainX == PkgAtom("", "c", "x", <<>>, <<>>)
ExactX == PkgAtom("=", "c", "x", <<V(<<2>>, 0)>>, <<>>)
Line(a) == [atom |-> a, neg |-> FALSE]
Minus(a) == [atom |-> a, neg |-> TRUE]
Readable(lines) == [hidden |-> FALSE, bad |-> FALSE, lines |-> lines]
Hidden(lines) == [Readable(lines) EXCEPT !.hidden = TRUE]
Unreadable(lines) == [Readable(lines) EXCEPT !.bad = TRUE]

F == <<"", "f">>
G == <<"", "g">>
Target == <<"pt", "a">>
Arch == Keyword("", "amd64")
Testing == Keyword("~", "amd64")

Package(v, keywords) ==
    [cat |-> "c", name |-> "x", ver |-> v, slot |-> <<"0", "1">>, keywords |-> keywords,
     iuse |-> {F, G, Target}, defaults |-> {}]
Older == Package(V(<<1>>, 0), {Arch})
Newer == Package(V(<<2>>, 0), {Arch})
Revised == Package(V(<<2>>, 1), {Arch})
Tenth == Package(V(<<2, 0>>, 0), {Arch})

Profile(parents) ==
    [parents |-> parents, mask |-> <<>>, unmask |-> <<>>, use |-> <<>>, force |-> <<>>, umask |-> <<>>,
     vars |-> <<>>, packages |-> <<>>]
Parent(p, via, exists) == [to |-> p, via |-> via, exists |-> exists]
Profiles(top, base) == "top" :> top @@ "base" :> base
Ordinary == Profile(<<Parent("base", "path", TRUE)>>)

Configuration ==
    [profs |-> Profiles(Ordinary, Profile(<<>>)), profile |-> "top", repoMask |-> <<>>, mask |-> <<>>, unmask |-> <<>>,
     accept |-> {}, makeConf |-> <<>>, packageUse |-> <<>>, expandVars |-> {"pt"}]

-----------------------------------------------------------------------------
(* Masks: at most one line in each of six files.                              *)

AtMostOne(S) == {<<>>} \cup {<<x>> : x \in S}
MaskLine == {Line(PlainX), Line(ExactX), Minus(PlainX), Minus(ExactX)}
MaskDirs == {<<>>, <<Hidden(<<Line(PlainX)>>), Readable(<<Line(ExactX)>>)>>,
             <<Unreadable(<<>>), Readable(<<Line(PlainX)>>)>>, <<Readable(<<Minus(ExactX)>>)>>,
             <<Readable(<<Line(PkgAtom("", "c", "*", <<>>, <<>>))>>)>>,
             <<Readable(<<Line(PkgAtom("=*", "c", "x", <<V(<<2>>, 0)>>, <<>>))>>)>>,
             <<Readable(<<Line(PkgAtom("~", "c", "x", <<V(<<2>>, 0)>>, <<>>)), Line(PkgAtom("", "c", "x*", <<>>, <<"1">>))>>)>>}

MaskConfigurations ==
    {[Configuration EXCEPT !.repoMask = r, !.mask = m, !.unmask = u,
         !.profs = Profiles([Ordinary EXCEPT !.mask = t, !.unmask = n], [Profile(<<>>) EXCEPT !.mask = b])] :
        r \in AtMostOne(MaskLine), b \in AtMostOne(MaskLine), t \in AtMostOne({Line(ExactX), Minus(PlainX)}),
        n \in AtMostOne({Line(ExactX)}), m \in MaskDirs, u \in {<<>>, <<Readable(<<Line(ExactX)>>)>>}}

KeywordSets == {{}, {Arch}, {Testing}, {Keyword("-", "*"), Testing}, {Keyword("", "arm64")}}
AcceptSets == {{}, {Testing}, {Arch, Testing}, {Keyword("~", "*")}, {Keyword("", "*")}, {Keyword("", "**")}}

VisibilityInputs ==
    [kind : {"visibility"}, conf : MaskConfigurations, versions : {{Older, Newer}, {Newer, Revised, Tenth}}]
      \cup [kind : {"visibility"}, conf : {[Configuration EXCEPT !.accept = a, !.mask = m] : a \in AcceptSets,
                                              m \in {<<>>, <<Readable(<<Line(ExactX)>>)>>}},
            versions : {{Package(V(<<1>>, 0), k), Package(V(<<2>>, 0), l)} : k \in KeywordSets, l \in KeywordSets}]

-----------------------------------------------------------------------------
(* USE: one flag in every file, another one and a USE_EXPAND flag in some.    *)

Signed == {On(F), Off(F)}
UseAtoms == {PkgAtom("", "*", "*", <<>>, <<>>), PlainX, PkgAtom(">=", "c", "x", <<V(<<1>>, 0)>>, <<>>), ExactX,
             PkgAtom("", "c", "x", <<>>, <<"0", "2">>), PkgAtom("", "c", "x", <<>>, <<"0">>)}
UseLine(a, flags) == [atom |-> a, flags |-> flags]
UseLines == {UseLine(a, <<s>>) : a \in UseAtoms, s \in Signed}
              \cup {UseLine(PlainX, <<Off(G), [prefix |-> "pt"], On(<<"", "a">>)>>), UseLine(ExactX, <<On(F), Off(F), On(G)>>)}
PackageUseDirs ==
    {<<Readable(l)>> : l \in AtMostOne(UseLines) \cup {<<k, l>> : k \in UseLines, l \in UseLines}}
      \cup {<<Hidden(<<k>>), Readable(<<l>>)>> : k \in UseLines, l \in UseLines}

Assign(var, words) == [k |-> "set", var |-> var, words |-> words]
Source(f) == [k |-> "source", to |-> f]
MakeConfs ==
    {<<>>, "make.conf" :> <<Assign("USE", <<Off(F)>>)>>, "make.conf" :> <<Assign("USE", <<On(F), On(G)>>), Assign("pt", <<On(<<"", "a">>)>>)>>,
     "make.conf" :> <<Assign("USE", <<Off(F)>>), Source("more"), Source("more"), Assign("USE", <<[ref |-> "USE"], On(G)>>)>>
        @@ "more" :> <<Source("make.conf"), Assign("USE", <<[ref |-> "USE"], On(F)>>)>>}

ListDirs == {<<>>, <<Readable(<<On(F)>>)>>, <<Readable(<<Off(F)>>)>>, <<Readable(<<On(F)>>), Unreadable(<<>>)>>}
UseProfiles ==
    {Profiles([Profile(p) EXCEPT !.use = t, !.umask = m], [Profile(<<>>) EXCEPT !.use = b, !.force = f, !.vars = v]) :
        p \in {<<Parent("base", "path", TRUE)>>, <<Parent("base", "repo", TRUE), Parent("base", "path", FALSE)>>},
        t \in AtMostOne(Signed), b \in AtMostOne(Signed) \cup {<<On(F), Off(F)>>}, f \in ListDirs, m \in ListDirs,
        v \in {<<>>, "pt" :> <<On(<<"", "a">>)>>}}
Defaults == {{}, {F}}
UseInputs ==
    [kind : {"effective"}, conf : {[Configuration EXCEPT !.packageUse = d, !.makeConf = m] : d \in PackageUseDirs, m \in MakeConfs},
     p : {[Newer EXCEPT !.defaults = d] : d \in Defaults}]
      \cup [kind : {"effective"}, conf : {[Configuration EXCEPT !.profs = q, !.makeConf = m] : q \in UseProfiles, m \in MakeConfs},
            p : {[Newer EXCEPT !.defaults = d] : d \in Defaults}]

-----------------------------------------------------------------------------
(* Sets: a world file, the packages of two profiles, and what is installed.   *)

X == <<"c", "x">>
Y == <<"c", "xy">>
Z == <<"d", "x">>
Entry(n) == [name |-> n, versioned |-> FALSE]
Bound(n) == [name |-> n, versioned |-> TRUE]
Installed(n, v, use) == [name |-> n, ver |-> v, use |-> use]
SystemProfiles ==
    {Profiles([Profile(p) EXCEPT !.packages = t], [Profile(<<>>) EXCEPT !.packages = b]) :
        p \in {<<>>, <<Parent("base", "path", TRUE)>>, <<Parent("base", "repo", TRUE)>>,
               <<Parent("base", "path", TRUE), Parent("base", "path", FALSE)>>},
        t \in AtMostOne({Entry(X), Bound(X)}), b \in AtMostOne({Entry(Y), Bound(Y)})}
SetInputs ==
    [kind : {"set"},
     sys : {[profs |-> q, profile |-> "top", world |-> w, user |-> u, db |-> db,
             repo |-> X :> [ver |-> V(<<2>>, 0), use |-> {"f"}] @@ Y :> [ver |-> V(<<1>>, 0), use |-> {}]] :
              q \in SystemProfiles, w \in {<<>>, <<<<>>>>, <<<<Entry(X), Entry(Z)>>>>, <<<<Entry(Y)>>>>},
              u \in AtMostOne({Entry(Y)}),
              db \in SUBSET {Installed(X, V(<<1>>, 0), {}), Installed(X, V(<<2>>, 0), {}), Installed(Y, V(<<2>>, 0), {}), Installed(Z, V(<<2>>, 0), {})}},
     opts : {{}, {"newuse"}, {"newuse", "changed-use"}}]

-----------------------------------------------------------------------------
PolicyInit == input \in VisibilityInputs \cup UseInputs \cup SetInputs /\ answer = NoAnswer

Choose ==
    /\ input.kind = "visibility" /\ answer = NoAnswer
    /\ answer' = [kind |-> "visibility",
                  resolver |-> loadUnmaskedPackage(input.conf, input.versions),
                  info |-> displayPackageInfo(input.conf, input.versions),
                  nodeps |-> loadBestAcceptableVersion(input.conf, input.versions)]
    /\ UNCHANGED input

ResolveUSE ==
    /\ input.kind = "effective" /\ answer = NoAnswer
    /\ answer' = [kind |-> "effective", planned |-> PlannedUSE(input.conf, input.p),
                  built |-> ApplyEffectiveUSE(input.conf, input.p)]
    /\ UNCHANGED input

ExpandSets ==
    /\ input.kind = "set" /\ answer = NoAnswer
    /\ \E plan \in CalculateUpdates(input.sys, GetWorld(input.sys), input.opts) :
        answer' = [kind |-> "set", plan |-> plan, expanded |-> ExpandWorld(input.sys)]
    /\ UNCHANGED input

PolicyNext == Next \/ Choose \/ ResolveUSE \/ ExpandSets
PolicySpec == (Init \/ PolicyInit) /\ [][PolicyNext]_vars

-----------------------------------------------------------------------------
(* Reference definitions *)

\* Lines of masks in the order of the files; "-atom" takes back the lines
\* before it that say the same.
StackedMasks(lines) ==
    FoldLeft(LAMBDA S, e : IF e.neg THEN S \ {e.atom} ELSE S \cup {e.atom}, {}, lines)
Visible(conf, p) ==
    /\ \/ \A a \in StackedMasks(MaskLines(conf)) : ~Matches(a, p, p.slot)
       \/ \E i \in DOMAIN loadMaskDir(conf.unmask) : Matches(loadMaskDir(conf.unmask)[i].atom, p, p.slot)
    /\ IsKeywordAccepted(p.keywords, getAcceptKeywords(conf))

\* Masks that the files take back by the same atom, later and only by it.
PlainMasks(conf, S) ==
    LET lines == MaskLines(conf)
        touch(i, j) == \E p \in S : Matches(lines[i].atom, p, p.slot) /\ Matches(lines[j].atom, p, p.slot)
    IN /\ \A i \in DOMAIN lines : ~IsWild(lines[i].atom)
       /\ \A i, j \in DOMAIN lines : lines[i].neg /\ ~lines[j].neg /\ touch(i, j) => j < i /\ lines[i].atom = lines[j].atom

\* Whether the last word that a sequence of signed flags says of f is +.
LastWord(said, f) ==
    \E i \in DOMAIN said : said[i] = On(f) /\ \A j \in (i + 1)..Len(said) : said[j].f # f

\* Everything that is said of USE, from the weakest to the strongest.
Said(conf, p) ==
    LET lines == loadPackageDirectory(conf.packageUse)
        weakestFirst == SetToSortSeq({i \in DOMAIN lines : Matches(lines[i].atom, p, p.slot)},
                            LAMBDA i, j : LET r(k) == GetSpecificity(lines[k].atom) IN r(i) < r(j) \/ (r(i) = r(j) /\ i < j))
    IN SetToSeq({On(f) : f \in p.defaults})
         \o Inherited(conf.profs, conf.profile, LAMBDA q : q.parents, LAMBDA q : q.use)
         \o Lookup(MakeConf(conf), "USE") \o SetToSeq({On(f) : f \in RepositorySource(conf, p).expand})
         \o FlattenSeq([k \in DOMAIN weakestFirst |-> expandUSEExpand(lines[weakestFirst[k]].flags)])

\* Two lists of signed flags of which one says + and the other - of a flag.
Contradict(s, t) == \E i \in DOMAIN s, j \in DOMAIN t : s[i].f = t[j].f /\ s[i].on # t[j].on

ProfilesOf(conf) == {conf.profs[q] : q \in DOMAIN conf.profs}
PlainLists(conf) ==
    \A q \in ProfilesOf(conf) : LET lists == q.force \o q.umask
        IN /\ \A i \in DOMAIN q.parents : q.parents[i].exists
           /\ \A i \in DOMAIN lists : ~lists[i].bad
           /\ \A i \in DOMAIN LinesOf(lists) : LinesOf(lists)[i].on
PlainPackageUse(conf) ==
    LET lines == loadPackageDirectory(conf.packageUse)
        said(i) == expandUSEExpand(lines[i].flags)
    IN \A i, j \in DOMAIN lines :
        GetSpecificity(lines[i].atom) = GetSpecificity(lines[j].atom) /\ i # j => ~Contradict(said(i), said(j))
FlagLines(q) == q.use \o LinesOf(q.force) \o LinesOf(q.umask)

-----------------------------------------------------------------------------
\* The resolver takes the highest version that the masks and the keywords leave
\* visible, and none when there is none, where masks are taken back by the same
\* atom and later; "grpm info" shows the same whenever there is one, and
\* "emerge --nodeps" takes the same when no masks are set and one is accepted.
HighestVisibleTaken ==
    answer.kind = "visibility" /\ PlainMasks(input.conf, input.versions) =>
        LET visible == {p \in input.versions : Visible(input.conf, p)}
        IN /\ answer.resolver = Best(visible)
           /\ visible # {} => answer.info = Best(visible)
           /\ visible # {} /\ MaskLines(input.conf) = <<>> => answer.nodeps = Best(visible)

\* A flag is on for the resolver exactly when the last word said of it is +, or
\* use.force names it, and use.mask does not; where the parents of the profile
\* can be loaded, lists have no "-flag" lines and no unreadable files, and lines
\* of package.use with equally specific atoms do not contradict each other.
USEIsLastWord ==
    answer.kind = "effective" /\ PlainLists(input.conf) /\ PlainPackageUse(input.conf)
    => answer.planned =
         {f \in input.p.iuse : /\ LastWord(Said(input.conf, input.p), f) \/ \E q \in ProfilesOf(input.conf) : f \in Named(LinesOf(q.force))
                               /\ \A q \in ProfilesOf(input.conf) : f \notin Named(LinesOf(q.umask))}

\* A package is built with a flag exactly when its dependencies were resolved
\* with it, for flags on which neither the defaults of IUSE nor a profile have
\* a say.
BuiltAsPlanned ==
    answer.kind = "effective" =>
        \A f \in input.p.iuse \ input.p.defaults :
            /\ \A q \in ProfilesOf(input.conf) : \A i \in DOMAIN FlagLines(q) : FlagLines(q)[i].f # f
            /\ f[1] # "" => \A q \in ProfilesOf(input.conf) : q.vars = <<>>
            => (f \in answer.planned <=> f \in answer.built)

\* The flags of a package: the last word of the configuration decides, for the
\* resolver (pkg/use_resolver.go) and for the build (cli/useflags.go) alike.
USEAsConfigured == USEIsLastWord /\ BuiltAsPlanned

\* "emerge @world" and "update @world" are about the same packages when there
\* is a world file, no list of the user's, and parents are paths that exist; and
\* update plans, of the entries without a version and with no namesakes
\* installed, exactly the missing ones and the ones that are older than the
\* repository's (or whose flags differ, when asked for).
WorldIsOne ==
    answer.kind = "set" =>
        LET s == input.sys
            entries == GetWorld(s)
            own(n) == {i \in s.db : i.name = n}
            differs(n) == input.opts # {} /\ \E i \in own(n) : s.repo[n].use # i.use
            older(n) == \E i \in own(n) : CompareVersions(s.repo[n].ver, i.ver) > 0
            wanted(n) == own(n) = {} \/ (older(n) /\ "changed-use" \notin input.opts) \/ differs(n)
        IN /\ s.world # <<>> /\ s.user = <<>>
                /\ (\A q \in ProfilesOf(s) : \A i \in DOMAIN q.parents : q.parents[i].exists /\ q.parents[i].via = "path")
              => answer.expanded = <<{e.name : e \in entries}>>
           /\ (\A n \in DOMAIN s.repo : own(n) = findInstalledPackage(s, n) /\ Cardinality(own(n)) <= 1)
              => {u.name : u \in answer.plan} = {n \in DOMAIN s.repo : Entry(n) \in entries /\ wanted(n)}

\* pkg/use_resolver.go: "all other layers must call this function (or wrap it)
\* to determine which USE flags are active.  This prevents the inconsistencies":
\* the same without a condition.
EveryLayerAgrees == answer.kind = "effective" => answer.planned = answer.built

\* config.go: "later entries of same specificity override earlier ones".
LaterLineWins ==
    answer.kind = "effective" /\ input.conf.profs = Configuration.profs =>
        answer.planned = {f \in input.p.iuse : LastWord(Said(input.conf, input.p), f)}

\* The masks of the files, one stacked on the other, whatever they say.
MasksStack ==
    answer.kind = "visibility" => answer.resolver = Best({p \in input.versions : Visible(input.conf, p)})
=============================================================================
