------------------------------- MODULE Policy -------------------------------
(***************************************************************************)
(* What the administrator, the profile and the repository say of a         *)
(* package: which versions are visible, which USE flags they are built     *)
(* with and which sets they are in (internal/config, internal/mask,        *)
(* internal/profile, internal/pkg/use_resolver.go, internal/sets,          *)
(* internal/state/sets.go and their callers in internal/solver,            *)
(* internal/repo and internal/cli).                                        *)
(*                                                                         *)
(* Files are read into sequences of lines: an atom with its sign, or flags *)
(* with their signs.  A profile is a record of its files; its "parent"     *)
(* lines name other profiles by a path or by repository:path, and some     *)
(* name a directory that is not there.                                     *)
(***************************************************************************)
EXTENDS VersionCompare, FiniteSetsExt

CONSTANTS
  Globs,    \* the values that a pattern with a leading or trailing "*" stands for
  Begins    \* pairs of package names of which the second is a prefix of the first

On(f) == [on |-> TRUE, f |-> f]
Off(f) == [on |-> FALSE, f |-> f]

-----------------------------------------------------------------------------
(* Package atoms: [op, cat, name, ver, slot], with ver = <<>> for none and    *)
(* otherwise <<version>>, and a slot <<>>, <<name>> or <<name, subslot>>.     *)

matchPattern(pattern, value) ==
    pattern = "*" \/ pattern = value \/ (pattern \in DOMAIN Globs /\ value \in Globs[pattern])

matchSlot(atomSlot, pkgSlot) ==
    /\ atomSlot[1] \in {pkgSlot[1], "*"}
    /\ Len(atomSlot) > 1 /\ Len(pkgSlot) > 1 => atomSlot[2] \in {pkgSlot[2], "*"}

stripRevision(v) == [v EXCEPT !.rev = 0]

\* strings.HasPrefix on the text of two versions of numbers and a revision of
\* one digit.
TextPrefix(v, w) ==
    LET n == Len(v.comps)
    IN IF v.rev # 0 THEN v = w
       ELSE /\ n <= Len(w.comps)
            /\ SubSeq(v.comps, 1, n - 1) = SubSeq(w.comps, 1, n - 1)
            /\ IsPrefix(v.comps[n], w.comps[n])

matchVersion(op, pkgVersion, v) ==
    LET cmp == CompareVersions(pkgVersion, v)
    IN CASE op = "="  -> cmp = 0
         [] op = ">=" -> cmp >= 0
         [] op = "<=" -> cmp <= 0
         [] op = ">"  -> cmp > 0
         [] op = "<"  -> cmp < 0
         [] op = "~"  -> CompareVersions(stripRevision(pkgVersion), stripRevision(v)) = 0
         [] op = "=*" -> TextPrefix(v, pkgVersion)

\* PackageAtom.Matches; the caller decides whether slot has a subslot.
Matches(a, p, slot) ==
    /\ matchPattern(a.cat, p.cat)
    /\ matchPattern(a.name, p.name)
    /\ a.slot # <<>> /\ slot # <<>> => matchSlot(a.slot, slot)
    /\ a.op # "" /\ a.ver # <<>> => matchVersion(a.op, p.ver, a.ver[1])

IsWild(a) == a.cat \in {"*"} \cup DOMAIN Globs \/ a.name \in {"*"} \cup DOMAIN Globs

GetSpecificity(a) ==
    CASE IsWild(a) -> IF a.slot # <<>> THEN 0 ELSE -1
      [] ~IsWild(a) /\ a.op = "=" -> 6
      [] ~IsWild(a) /\ a.op = "~" -> 5
      [] ~IsWild(a) /\ a.op = "=*" -> 4
      [] ~IsWild(a) /\ a.op \in {">=", "<=", ">", "<"} -> 2
      [] OTHER -> IF a.slot # <<>> THEN 3 ELSE 1

-----------------------------------------------------------------------------
(* Files: a path is a file, or a directory of files in the order of names,    *)
(* some of them hidden or backups and some unreadable.                        *)

LinesOf(files) == FlattenSeq([i \in DOMAIN files |-> files[i].lines])

loadMaskDir(files) == LinesOf(SelectSeq(files, LAMBDA f : ~f.hidden /\ ~f.bad))
loadPackageDirectory(files) == LinesOf(SelectSeq(files, LAMBDA f : ~f.bad))

\* One unreadable file loses the list: LoadProfile ignores the error.
parseListDir(files) ==
    LET seen == SelectSeq(files, LAMBDA f : ~f.hidden)
    IN IF \E i \in DOMAIN seen : seen[i].bad THEN <<>> ELSE LinesOf(seen)

-----------------------------------------------------------------------------
(* Profiles.  profs is a function from profiles to their records, acyclic:    *)
(* on a cycle of parents neither loader returns.                              *)

\* The entries that read yields over q and its ancestors, where inherits tells
\* which parents of a profile are followed; ancestors come first.
Inherited(profs, top, inherits(_), read(_)) ==
    LET n == Cardinality(DOMAIN profs)
        from[k \in 0..n, q \in DOMAIN profs] ==
            IF k = 0 THEN read(profs[q])
            ELSE FlattenSeq([i \in DOMAIN inherits(profs[q]) |-> from[k - 1, inherits(profs[q])[i].to]])
                   \o read(profs[q])
    IN from[n, top]

\* Profile.Resolve: one parent that cannot be found or loaded loses them all.
loadParents(prof) ==
    IF \A i \in DOMAIN prof.parents : prof.parents[i].exists THEN prof.parents ELSE <<>>

\* MaskManager.readParentFile: a parent that is not there is passed over.
readParentFile(prof) == SelectSeq(prof.parents, LAMBDA r : r.exists)

\* deduplicateUSEFlags: the last mention of a flag is kept.
deduplicateUSEFlags(flags) ==
    FoldRight(LAMBDA x, kept : IF \E i \in DOMAIN kept : kept[i].f = x.f THEN kept ELSE <<x>> \o kept,
              flags, <<>>)

GetUSEFlags(profs, top) == deduplicateUSEFlags(Inherited(profs, top, loadParents, LAMBDA q : q.use))
GetForcedUSE(profs, top) == Inherited(profs, top, loadParents, LAMBDA q : parseListDir(q.force))
GetMaskedUSE(profs, top) == Inherited(profs, top, loadParents, LAMBDA q : parseListDir(q.umask))

-----------------------------------------------------------------------------
(* Masks: lines [atom, neg]; conf.mask and conf.unmask are the user's.        *)

loadProfileMasksCascade(profs, top) ==
    Inherited(profs, top, readParentFile,
              LAMBDA q : q.mask \o [i \in DOMAIN q.unmask |-> [q.unmask[i] EXCEPT !.neg = TRUE]])

MaskLines(conf) ==
    conf.repoMask \o loadProfileMasksCascade(conf.profs, conf.profile) \o loadMaskDir(conf.mask)

\* buildIndex: the entries of both indexes under the category and name of p.
IndexedUnder(a, p) == a.cat = p.cat /\ a.name = p.name
maskIndex(conf, p) == SelectSeq(MaskLines(conf), LAMBDA e : ~e.neg /\ IndexedUnder(e.atom, p))
unmaskIndex(conf, p) ==
    SelectSeq(MaskLines(conf), LAMBDA e : e.neg /\ IndexedUnder(e.atom, p))
      \o SelectSeq(loadMaskDir(conf.unmask), LAMBDA e : IndexedUnder(e.atom, p))

AnyMatches(entries, p) == \E i \in DOMAIN entries : Matches(entries[i].atom, p, <<p.slot[1]>>)

isUnmasked(conf, p) == AnyMatches(unmaskIndex(conf, p), p)

\* Mutant: an unmasked package is looked up among the masks all the same.
IsMasked_Always(conf, p) == AnyMatches(maskIndex(conf, p), p)

IsMasked(conf, p) == ~isUnmasked(conf, p) /\ AnyMatches(maskIndex(conf, p), p)

-----------------------------------------------------------------------------
(* Keywords [sign, arch]; "*" and "**" stand among the architectures.         *)

Keyword(sign, arch) == [sign |-> sign, arch |-> arch]

IsKeywordAccepted(keywords, accept) ==
    IF keywords = {} THEN Keyword("", "**") \in accept
    ELSE \E kw \in keywords :
            /\ kw.sign # "-"
            /\ \/ accept \cap {Keyword("", "*"), Keyword("", "**")} # {}
               \/ kw.sign = "~" /\ Keyword("~", "*") \in accept
               \/ kw \in accept

\* The list of make.conf replaces the architecture of the machine.
getAcceptKeywords(conf) == IF conf.accept = {} THEN {Keyword("", "amd64")} ELSE conf.accept

-----------------------------------------------------------------------------
(* The version of a name that a command takes; {} for an error.               *)

Highest(S) == CHOOSE p \in S : \A q \in S : CompareVersions(p.ver, q.ver) >= 0
Best(S) == IF S = {} THEN {} ELSE {Highest(S)}

isPackageAcceptable(conf, p) == ~IsMasked(conf, p) /\ IsKeywordAccepted(p.keywords, getAcceptKeywords(conf))
filterMaskedPackages(conf, S) == {p \in S : isPackageAcceptable(conf, p)}

\* The resolver, for an atom without a version.
loadUnmaskedPackage(conf, S) ==
    IF isPackageAcceptable(conf, Highest(S)) THEN Best(S) ELSE Best(filterMaskedPackages(conf, S))

\* grpm info: what is masked or unkeyworded is shown when there is nothing else.
displayPackageInfo(conf, S) ==
    IF filterMaskedPackages(conf, S) # {} THEN Best(filterMaskedPackages(conf, S)) ELSE Best(S)

\* emerge --nodeps: by keywords alone, and the highest when none is accepted.
loadBestAcceptableVersion(conf, S) ==
    LET accepted(p) == IsKeywordAccepted(p.keywords, getAcceptKeywords(conf))
    IN IF accepted(Highest(S)) \/ {p \in S : accepted(p)} = {} THEN Best(S)
       ELSE Best({p \in S : accepted(p)})

-----------------------------------------------------------------------------
(* make.conf: lines [k |-> "set", var, words] and [k |-> "source", to]; a     *)
(* word is a signed flag or [ref |-> variable].                               *)

Lookup(vars, v) == IF v \in DOMAIN vars THEN vars[v] ELSE <<>>

varexpand(vars, words) ==
    FlattenSeq([i \in DOMAIN words |-> IF "ref" \in DOMAIN words[i] THEN Lookup(vars, words[i].ref) ELSE <<words[i]>>])

parseMakeConfLine(vars, line) == (line.var :> varexpand(vars, line.words)) @@ vars

\* A file that has been read in this load is not read again.
RECURSIVE loadMakeConfFile(_, _, _)
loadMakeConfFile(files, path, s) ==
    LET start == [s EXCEPT !.visited = @ \cup {path}]
        step(t, line) == IF line.k = "source" THEN loadMakeConfFile(files, line.to, t)
                         ELSE [t EXCEPT !.vars = parseMakeConfLine(@, line)]
    IN IF path \in s.visited \/ path \notin DOMAIN files THEN start
       ELSE FoldLeft(step, start, files[path])

MakeConf(conf) == loadMakeConfFile(conf.makeConf, "make.conf", [vars |-> <<>>, visited |-> {}]).vars

-----------------------------------------------------------------------------
(* USE.  conf.packageUse is a directory of lines [atom, flags] of package.use.*)

\* expandUSEExpand: "PREFIX:" [prefix |-> p] applies to the rest of its line.
expandUSEExpand(words) ==
    LET step(s, w) == IF "prefix" \in DOMAIN w THEN [s EXCEPT !.p = w.prefix]
                      ELSE [s EXCEPT !.out = Append(@, [w EXCEPT !.f = <<s.p, w.f[2]>>])]
    IN FoldLeft(step, [p |-> "", out |-> <<>>], words).out

\* The flags, + or -, that the entries say of p.  They are sorted from the
\* most specific to the least, equals in the order of the files, and applied
\* from the last to the first.
GetPackageUSEForPackage(conf, p) ==
    LET lines == loadPackageDirectory(conf.packageUse)
        matching == {i \in DOMAIN lines : Matches(lines[i].atom, p, p.slot)}
        rank(i) == GetSpecificity(lines[i].atom)
        sorted == SetToSortSeq(matching, LAMBDA i, j : rank(i) > rank(j) \/ (rank(i) = rank(j) /\ i < j))
        said == FlattenSeq([k \in DOMAIN sorted |-> expandUSEExpand(lines[sorted[Len(sorted) + 1 - k]].flags)])
    IN deduplicateUSEFlags(said)

applyUSEFlagList(use, flags) ==
    FoldLeft(LAMBDA s, x : IF x.on THEN s \cup {x.f} ELSE s \ {x.f}, use, flags)

\* A line "-flag" of use.force or use.mask is a flag of that name.
Named(lines) == {lines[i].f : i \in {j \in DOMAIN lines : lines[j].on}}

\* src: what a layer hands to the resolver as cfg.
ResolveEffectiveUSE(defaults, src) ==
    LET conf == applyUSEFlagList(applyUSEFlagList(defaults, src.profile), src.global)
        pkgs == applyUSEFlagList(conf \cup src.expand, src.package)
    IN (pkgs \cup src.forced) \ src.masked

\* Flags of a USE_EXPAND variable: conf.expandVars are the variables.
ExpandFlags(vars, v) == {<<v, Lookup(vars, v)[i].f[2]>> : i \in DOMAIN Lookup(vars, v)}

\* portageUSEConfig: make.conf, else the profile itself without its parents.
RepositorySource(conf, p) ==
    [profile |-> GetUSEFlags(conf.profs, conf.profile),
     global  |-> Lookup(MakeConf(conf), "USE"),
     expand  |-> UNION {IF Lookup(MakeConf(conf), v) # <<>> THEN ExpandFlags(MakeConf(conf), v)
                        ELSE ExpandFlags(conf.profs[conf.profile].vars, v) : v \in conf.expandVars},
     package |-> GetPackageUSEForPackage(conf, p),
     forced  |-> Named(GetForcedUSE(conf.profs, conf.profile)),
     masked  |-> Named(GetMaskedUSE(conf.profs, conf.profile))]

\* Mutant: the command forgets package.use.
CommandSource_NoPackage(conf, p) ==
    [profile |-> <<>>, global |-> Lookup(MakeConf(conf), "USE"),
     expand |-> UNION {ExpandFlags(MakeConf(conf), v) : v \in conf.expandVars},
     package |-> <<>>, forced |-> {}, masked |-> {}]

\* cliUSEConfig: make.conf and package.use alone.
CommandSource(conf, p) ==
    [profile |-> <<>>,
     global  |-> Lookup(MakeConf(conf), "USE"),
     expand  |-> UNION {ExpandFlags(MakeConf(conf), v) : v \in conf.expandVars},
     package |-> GetPackageUSEForPackage(conf, p),
     forced  |-> {}, masked |-> {}]

\* parseEbuild: the flags that dependencies are filtered with, and of them the
\* ones that the package keeps.
getEffectiveUSE(conf, p) == ResolveEffectiveUSE(p.defaults, RepositorySource(conf, p))
PlannedUSE(conf, p) == getEffectiveUSE(conf, p) \cap p.iuse

\* ApplyEffectiveUSE, before the build: the defaults are gone, and flags of
\* USE_EXPAND variables are added to IUSE.
ApplyEffectiveUSE(conf, p) ==
    LET effective == ResolveEffectiveUSE({}, CommandSource(conf, p))
    IN effective \cap (p.iuse \cup {f \in effective : f[1] # ""})

-----------------------------------------------------------------------------
(* The sets @selected, @system and @world as the two parts of the program     *)
(* that expand them see them, and the plan of "update @set".  A name is       *)
(* <<category, package>>; an entry of a file of packages is [name, versioned],*)
(* where versioned tells that it has an operator and a version.  sys.world is *)
(* the world file: <<lines>>, or <<>> when there is none; sys.user the lines  *)
(* of /etc/portage/profile/packages.                                          *)

\* internal/state/sets.go, for update and depclean

GetSystemPackages(profs, top) == ToSet(Inherited(profs, top, loadParents, LAMBDA q : q.packages))

GetSelected(sys) == IF sys.world = <<>> THEN {} ELSE ToSet(sys.world[1])
GetWorld(sys) == GetSelected(sys) \cup GetSystemPackages(sys.profs, sys.profile)

\* internal/sets, for emerge, install and fetch

\* Mutant: the parents are not followed.
collectProfilePackages_Top(profs, top) == ToSet(profs[top].packages)

\* SystemSet follows the parents that are paths, whichever of them are there.
collectProfilePackages(profs, top) ==
    ToSet(Inherited(profs, top, LAMBDA q : SelectSeq(q.parents, LAMBDA r : r.exists /\ r.via = "path"),
                    LAMBDA q : q.packages))

SystemPackages(sys) == collectProfilePackages(sys.profs, sys.profile) \cup ToSet(sys.user)

\* expandSet keeps the names; <<>> is an error.
ExpandWorld(sys) ==
    IF sys.world = <<>> THEN <<>>
    ELSE <<{e.name : e \in SystemPackages(sys) \cup ToSet(sys.world[1])}>>

(* update @set: sys.repo gives the highest version of each name with its      *)
(* flags, sys.db is the set of installed packages [name, ver, use].           *)

\* findInstalledPackage takes the first such package that the map yields.
findInstalledPackage(sys, name) ==
    {i \in sys.db : \/ i.name = name
                    \/ i.name[1] = name[1] /\ <<i.name[2], name[2]>> \in Begins
                    \/ i.name[2] = name[2]}

\* With Update, as the command always has it.
checkPackageUpdate(sys, name, opts, installed) ==
    LET newer == CompareVersions(sys.repo[name].ver, installed.ver) > 0
        useChanged == opts # {} /\ sys.repo[name].use # installed.use
    IN IF (~newer /\ ~useChanged) \/ ("changed-use" \in opts /\ ~useChanged) THEN {}
       ELSE {[name |-> name, kind |-> IF newer THEN "upgrade" ELSE "use"]}

\* The plans of a set of entries, one for each order of the map.  An entry with
\* a version, and a name that is not in the repository, is passed over.
\* addDeepDependencies marks what is planned as processed and then expands what
\* is not: it adds nothing.
CalculateUpdates(sys, entries, opts) ==
    LET names == {e.name : e \in {x \in entries : ~x.versioned}} \cap DOMAIN sys.repo
        present == {n \in names : findInstalledPackage(sys, n) # {}}
        new == {[name |-> n, kind |-> "new"] : n \in names \ present}
        choices == {c \in [present -> sys.db] : \A n \in present : c[n] \in findInstalledPackage(sys, n)}
    IN {new \cup UNION {checkPackageUpdate(sys, n, opts, c[n]) : n \in present} : c \in choices}
=============================================================================
