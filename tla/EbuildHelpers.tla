---------------------------- MODULE EbuildHelpers ----------------------------
(***************************************************************************)
(* One phase of an ebuild: the script that RunPhaseFunction runs in a new  *)
(* interpreter, and the Portage helpers it calls, which share one Helpers  *)
(* value (internal/ebuild: executor.go, interpreter.go, helpers*.go).      *)
(*                                                                         *)
(* The script is any sequence of at most MaxCalls calls of the Menu of its *)
(* phase.  A call is plain, under nonfatal, or followed by || die, and at  *)
(* most MaxFaults writes of the phase fail.  A helper is an operator from  *)
(* the state before to the state after; the record is the one of BuildTree *)
(* with the fields of the Helpers struct added.                            *)
(*                                                                         *)
(* told and promised are history: the destinations the script has asked    *)
(* for, and the files it may expect in the image.                          *)
(***************************************************************************)
EXTENDS BuildTree, FiniteSets

CONSTANTS
    Phases,        \* the phases that are run
    Menu,          \* phase -> set of calls
    EAPIs,         \* subset of 0..8
    Tree,          \* the tree when the phase begins
    Archives,      \* name -> members
    Ext,           \* file name -> its extension, if it has one
    Stem,          \* file name -> the name without extension
    Docs, HtmlDocs, StandardDocs,  \* DOCS, HTML_DOCS, what the patterns match
    A, Patches, UserPatches,       \* A, PATCHES, patches of the user
    PatchOf,       \* patch -> the file it changes
    MakeInstalls,  \* path of the image -> content that make install writes
    MaxCalls, MaxFaults, MaxWrites

ASSUME Assumption ==
    /\ Phases \subseteq DOMAIN Menu
    /\ EAPIs \subseteq 0..8
    /\ \A n \in DOMAIN Ext : n \in DOMAIN Stem
    /\ {MaxCalls, MaxFaults, MaxWrites} \subseteq Nat

VARIABLES
    st,        \* tree, helpers and the result of the last command
    phase, eapi,
    calls,     \* calls made so far
    faults,    \* writes that have failed
    pc,        \* "running", "succeeded" or "failed"
    told, promised, fatal

vars == <<st, phase, eapi, calls, faults, pc, told, promised, fatal>>

Opts(m) == [given |-> "mode", mode |-> m, clauses |-> <<>>]          \* -m0644
Symbolic(clauses) == [given |-> "symbolic", mode |-> {}, clauses |-> clauses]  \* u+x
NoMode == [given |-> "other", mode |-> {}, clauses |-> <<>>]         \* -o root
BadMode == [given |-> "bad", mode |-> {}, clauses |-> <<>>]          \* -m, no number

NewHelpers ==
    [insDestTree |-> <<"usr">>, exeDestTree |-> <<>>, docDestTree |-> <<>>,
     destTree |-> <<"usr">>, libDir |-> "lib64",
     insOpts |-> Opts(M0644), exeOpts |-> Opts(M0755), dirOpts |-> Opts(M0755),
     nonfatalMode |-> FALSE, lastExitStatus |-> 0]

Destinations(s) == [ins |-> s.insDestTree, exe |-> s.exeDestTree,
                    doc |-> s.docDestTree, dest |-> s.destTree]

InImage(p) == <<"D">> \o p

-----------------------------------------------------------------------------
(***************************************************************************)
(* Destinations and options                                                *)
(***************************************************************************)
Insinto(s, args) == IF args = <<>> THEN Fail(s) ELSE [s EXCEPT !.insDestTree = args[1]]
Exeinto(s, args) == IF args = <<>> THEN Fail(s) ELSE [s EXCEPT !.exeDestTree = args[1]]
Docinto(s, args) == [s EXCEPT !.docDestTree = IF args = <<>> THEN <<>> ELSE args[1]]

\* The destination is set even if its directory cannot be made.
IntoTree(s, args) ==
    IF Len(args) # 1 THEN Fail(s)
    ELSE LET tree == IF args[1] = <<>> THEN <<"usr">> ELSE args[1]
         IN MkdirAll([s EXCEPT !.destTree = tree], InImage(tree), M0755)

Insopts(s, o) == [s EXCEPT !.insOpts = o]
Exeopts(s, o) == [s EXCEPT !.exeOpts = o]
Diropts(s, o) == [s EXCEPT !.dirOpts = o]

\* Options without -m mean 0644, for executables and directories too.
parseMode(o) == IF o.given = "mode" THEN o.mode ELSE M0644

-----------------------------------------------------------------------------
(***************************************************************************)
(* Installing files                                                        *)
(***************************************************************************)
\* One file of a do* helper; a directory is only taken by doX -r.
InstallOne(s, f, dst, mode, recursive) ==
    LET src == resolveSourcePath(f) IN
    CASE ~Ok(s) -> s
      [] Ok(s) /\ ~Exists(s.fs, src) -> Fail(s)
      [] Ok(s) /\ IsDir(s.fs, src) ->
            IF recursive THEN installDir(s, src, dst, mode) ELSE Fail(s)
      [] OTHER -> installFile(s, src, dst, mode)

\* Mutant: the result is that of the last file.
InstallAll_LastError(s, dir, files, mode, recursive) ==
    IF files = <<>> /\ ~recursive THEN Fail(s)
    ELSE FoldLeft(LAMBDA r, f: InstallOne([r EXCEPT !.err = "none"], f, Append(dir, Last(f)), mode, recursive),
                  MkdirAll(s, dir, M0755), files)

\* The files of a do* helper, one after the other, to one directory.
InstallAll(s, dir, files, mode, recursive) ==
    IF files = <<>> /\ ~recursive THEN Fail(s)
    ELSE FoldLeft(LAMBDA r, f: InstallOne(r, f, Append(dir, Last(f)), mode, recursive),
                  MkdirAll(s, dir, M0755), files)

\* The one file of a new* helper.
InstallAs(s, dir, args, mode) ==
    LET src == resolveSourcePath(args[1]) IN
    IF Len(args) < 2 \/ ~Exists(s.fs, src) \/ IsDir(s.fs, src) THEN Fail(s)
    ELSE installFile(MkdirAll(s, dir, M0755), src, dir \o args[2], mode)

\* Helpers that take their permissions from insopts or exeopts.
WithMode(s, opts, result) == IF opts.given = "bad" THEN Fail(s) ELSE result

BinDir(s) == InImage(Append(s.destTree, "bin"))
SbinDir(s) == InImage(Append(s.destTree, "sbin"))
LibDir(s) == InImage(Append(s.destTree, s.libDir))

Dobin(s, args) == WithMode(s, s.exeOpts, InstallAll(s, BinDir(s), args, parseMode(s.exeOpts), FALSE))
Dosbin(s, args) == WithMode(s, s.exeOpts, InstallAll(s, SbinDir(s), args, parseMode(s.exeOpts), FALSE))
Newbin(s, args) == WithMode(s, s.exeOpts, InstallAs(s, BinDir(s), args, parseMode(s.exeOpts)))
Newsbin(s, args) == WithMode(s, s.exeOpts, InstallAs(s, SbinDir(s), args, parseMode(s.exeOpts)))

Doexe(s, args) ==
    IF s.exeDestTree = <<>> THEN Fail(s)
    ELSE WithMode(s, s.exeOpts, InstallAll(s, InImage(s.exeDestTree), args, parseMode(s.exeOpts), FALSE))

Doins(s, args, recursive) ==
    WithMode(s, s.insOpts, InstallAll(s, InImage(s.insDestTree), args, parseMode(s.insOpts), recursive))
Newins(s, args) ==
    WithMode(s, s.insOpts, InstallAs(s, InImage(s.insDestTree), args, parseMode(s.insOpts)))

Dolib(s, args) ==
    IF args = <<>> THEN Fail(s)
    ELSE FoldLeft(LAMBDA r, f: InstallOne(r, f, Append(LibDir(s), Last(f)),
                                          IF Ext[Last(f)] = "so" THEN M0755 ELSE M0644, FALSE),
                  MkdirAll(s, LibDir(s), M0755), args)
\* dolib.so does not follow a link, so one that leads nowhere is taken.
DolibSo(s, args) ==
    LET One(r, f) == LET src == resolveSourcePath(f) IN
            IF Ok(r) /\ src \in DOMAIN r.fs /\ r.fs[src].kind = "dir" THEN Fail(r)
            ELSE installFile(r, src, Append(LibDir(s), Last(f)), M0755)
    IN IF args = <<>> THEN Fail(s) ELSE FoldLeft(One, MkdirAll(s, LibDir(s), M0755), args)
DolibA(s, args) == InstallAll(s, LibDir(s), args, M0644, FALSE)

\* A destination of insinto counts as a subdirectory of /usr/include.
Doheader(s, args, recursive) ==
    LET include == <<"usr", "include">>
        sub == IF s.insDestTree = <<"usr">> THEN <<>>
               ELSE IF IsPrefix(include, s.insDestTree) THEN Moved(s.insDestTree, include, <<>>)
               ELSE s.insDestTree
    IN InstallAll(s, InImage(include \o sub), args, M0644, recursive)

Dodir(s, dirs) ==
    IF dirs = <<>> THEN Fail(s)
    ELSE WithMode(s, s.dirOpts,
            FoldLeft(LAMBDA r, d: MkdirAll(r, InImage(d), parseMode(s.dirOpts)), s, dirs))
Keepdir(s, dirs) ==
    LET Keep(r, d) == WriteFile(MkdirAll(r, InImage(d), parseMode(s.dirOpts)),
                                InImage(Append(d, ".keep")), <<>>, M0644)
    IN IF dirs = <<>> THEN Fail(s) ELSE WithMode(s, s.dirOpts, FoldLeft(Keep, s, dirs))

\* Mutant: a doins that fails leaves the other place behind.
DoinsTo_NotAfterError(s, tree, args, recursive) ==
    LET r == Doins([s EXCEPT !.insDestTree = tree], args, recursive) IN
    IF args = <<>> THEN Fail(s)
    ELSE IF Ok(r) THEN [r EXCEPT !.insDestTree = s.insDestTree] ELSE r

\* doins to another place, which is taken back whatever happens.
DoinsTo(s, tree, args, recursive) ==
    IF args = <<>> THEN Fail(s)
    ELSE [Doins([s EXCEPT !.insDestTree = tree], args, recursive)
            EXCEPT !.insDestTree = s.insDestTree]
Doconfd(s, args, recursive) == DoinsTo(s, <<"etc", "conf.d">>, args, recursive)
Doenvd(s, args, recursive) == DoinsTo(s, <<"etc", "env.d">>, args, recursive)
Doinitd(s, args) == InstallAll(s, InImage(<<"etc", "init.d">>), args, M0755, FALSE)

\* filepath.Rel of two absolute paths
calculateRelativePath(link, target) ==
    LET dir == Front(link)
        common == CHOOSE n \in 0..Len(dir) :
                    /\ n <= Len(target) /\ SubSeq(dir, 1, n) = SubSeq(target, 1, n)
                    /\ n = Len(dir) \/ n = Len(target) \/ dir[n + 1] # target[n + 1]
    IN [i \in 1..(Len(dir) - common) |-> ".."] \o SubSeq(target, common + 1, Len(target))

\* Whatever has the name of the link is removed first, if it can be.
Dosym(s, args, relative) ==
    LET p == InImage(args[2])
        target == IF relative THEN calculateRelativePath(args[2], args[1])
                  ELSE args[1]
    IN IF Len(args) < 2 THEN Fail(s)
       ELSE Symlink(TryRemove(MkdirAll(s, Front(p), M0755), p), target, p)

Fperms(s, files, mode, recursive) ==
    FoldLeft(LAMBDA r, f: applyMode(r, InImage(f), mode, recursive), s, files)

-----------------------------------------------------------------------------
(***************************************************************************)
(* Documentation                                                           *)
(***************************************************************************)
getDocDir(s) == InImage(<<"usr", "share", "doc", "PF">> \o s.docDestTree)
ManDir(name) == InImage(<<"usr", "share", "man", Ext[name]>>)
LocaleDir(s, name) ==
    InImage((IF eapi >= 7 THEN <<"usr">> ELSE s.destTree) \o <<"share", "locale", Stem[name], "LC">>)

Dodoc(s, args, recursive) == InstallAll(s, getDocDir(s), args, M0644, recursive)
Newdoc(s, args) == InstallAs(s, getDocDir(s), args, M0644)
Doinfo(s, args) == InstallAll(s, InImage(<<"usr", "share", "info">>), args, M0644, FALSE)

Doman(s, args) ==
    LET One(r, f) ==
            LET src == resolveSourcePath(f) IN
            CASE ~Ok(r) -> r
              [] Ok(r) /\ (~Exists(r.fs, src) \/ IsDir(r.fs, src) \/ Last(f) \notin DOMAIN Ext) -> Fail(r)
              [] OTHER -> installFile(MkdirAll(r, ManDir(Last(f)), M0755), src,
                                      Append(ManDir(Last(f)), Last(f)), M0644)
    IN IF args = <<>> THEN Fail(s) ELSE FoldLeft(One, s, args)

Newman(s, args) ==
    IF Len(args) < 2 \/ Last(args[2]) \notin DOMAIN Ext THEN Fail(s)
    ELSE InstallAs(s, ManDir(Last(args[2])), args, M0644)

Domo(s, args) ==
    LET One(r, f) == LET dir == LocaleDir(r, Last(f)) IN
            IF ~Ok(r) \/ ~IsFile(r.fs, resolveSourcePath(f)) THEN Fail(r)
            ELSE installFile(MkdirAll(r, dir, M0755), resolveSourcePath(f), Append(dir, "PN.mo"), M0644)
    IN IF args = <<>> THEN Fail(s) ELSE FoldLeft(One, s, args)

\* The text on standard input, with the permissions of insopts.
NewinsFromStdin(s, cmd, name) ==
    LET dir == CASE cmd = "newdoc" -> getDocDir(s)
                 [] cmd = "newman" -> IF name \in DOMAIN Ext THEN ManDir(name)
                                      ELSE InImage(<<"usr", "share", "man", "1">>)
                 [] cmd = "newins" -> InImage(s.insDestTree)
    IN WithMode(s, s.insOpts,
            WriteFile(MkdirAll(s, dir, M0755), Append(dir, name), <<"stdin">>, parseMode(s.insOpts)))

\* What DOCS names and is not there is passed over.
installDocFiles(s, docs) ==
    FoldLeft(LAMBDA r, p: IF ~Ok(r) \/ ~Exists(r.fs, p) THEN r ELSE Dodoc(r, <<p>>, IsDir(r.fs, p)),
             s, [i \in DOMAIN docs |-> resolveSourcePath(docs[i])])

\* A file that matches a pattern and cannot be installed is a warning.
OrWarn(s, p) == [Dodoc(s, <<p>>, FALSE) EXCEPT !.err = "none"]
installStandardDocs(s) ==
    FoldLeft(LAMBDA r, f: IF IsFile(r.fs, resolveSourcePath(f)) THEN OrWarn(r, resolveSourcePath(f)) ELSE r,
             s, StandardDocs)

\* The rest of einstalldocs, once DOCS are installed.
HtmlDocsAfter(s) ==
    IF ~Ok(s) THEN s
    ELSE [installDocFiles([installStandardDocs(s) EXCEPT !.docDestTree = <<"html">>], HtmlDocs)
             EXCEPT !.docDestTree = s.docDestTree]
Einstalldocs(s) == HtmlDocsAfter(installDocFiles(s, Docs))

\* EAPI 4 and 5: DOCS or the patterns, seen from the script's directory.
installDocsFormat4(s) ==
    FoldLeft(LAMBDA r, p: IF IsFile(r.fs, p) /\ r.fs[Follow(r.fs, p)].data # <<>> THEN OrWarn(r, p) ELSE r,
             s, LET docs == IF Docs # <<>> THEN Docs ELSE StandardDocs
                IN [i \in DOMAIN docs |-> resolvePath(s, docs[i])])

-----------------------------------------------------------------------------
(***************************************************************************)
(* Build commands.  make, configure and patch are other programs: make and *)
(* configure succeed or not, and patch refuses a change that is there.     *)
(***************************************************************************)
Emake(s, ok, installs) ==
    CASE ~Ok(s) -> s
      [] Ok(s) /\ (~ok \/ ~IsDir(s.fs, s.cwd)) -> Fail(s)
      [] OTHER -> IF installs THEN Change(s, Over(MakeInstalls, s.fs)) ELSE s

HasConfigure(s) ==
    LET p == Append(s.cwd, "configure") IN
    IsFile(s.fs, p) /\ s.fs[Follow(s.fs, p)].mode \cap Bits(All, {"x"}) # {}
Econf(s, ok) == IF HasConfigure(s) /\ ok THEN s ELSE Fail(s)

applyPatchFile(s, p) ==
    LET f == PatchOf[p] IN
    IF Ok(s) /\ (~IsFile(s.fs, f) \/ p \in Range(s.fs[f].data)) THEN Fail(s)
    ELSE Change(s, [s.fs EXCEPT ![f].data = Append(@, p)])
\* Names of patches are looked up from the process, so a relative one fails.
Eapply(s, patches) ==
    IF patches = <<>> THEN Fail(s)
    ELSE FoldLeft(LAMBDA r, p: IF Last(p) \in DOMAIN PatchOf THEN applyPatchFile(r, Last(p)) ELSE Fail(r),
                  s, patches)
EapplyUser(s) == FoldLeft(applyPatchFile, s, UserPatches)

-----------------------------------------------------------------------------
(***************************************************************************)
(* The default phase functions                                             *)
(***************************************************************************)
DefaultSrcUnpack(s) ==
    IF eapi < 2 THEN Fail(s) ELSE IF A = <<>> THEN s ELSE Unpack(s, A, Archives)
DefaultSrcPrepare(s) ==
    CASE eapi < 2 -> Fail(s)
      [] eapi \in 2..5 -> s
      [] OTHER -> EapplyUser(IF Patches = <<>> THEN s ELSE Eapply(s, Patches))
DefaultSrcConfigure(s, ok) ==
    IF eapi < 2 THEN Fail(s) ELSE IF HasConfigure(s) THEN Econf(s, ok) ELSE s
hasMakefile(s) == Exists(s.fs, Append(s.cwd, "Makefile"))
DefaultSrcCompile(s, ok) ==
    IF eapi < 2 THEN Fail(s) ELSE IF hasMakefile(s) THEN Emake(s, ok, FALSE) ELSE s
DefaultSrcTest(s, ok) == DefaultSrcCompile(s, ok)
DefaultSrcInstall(s, ok) ==
    LET made == IF hasMakefile(s) THEN Emake(s, ok, TRUE) ELSE s IN
    CASE eapi < 4 -> Fail(s)
      [] eapi >= 4 /\ ~Ok(made) -> made
      [] OTHER -> IF eapi >= 6 THEN Einstalldocs(made) ELSE installDocsFormat4(made)

Default(s, ok) ==
    CASE phase = "unpack" -> DefaultSrcUnpack(s)
      [] phase = "prepare" -> DefaultSrcPrepare(s)
      [] phase = "configure" -> DefaultSrcConfigure(s, ok)
      [] phase = "compile" -> DefaultSrcCompile(s, ok)
      [] phase = "test" -> DefaultSrcTest(s, ok)
      [] phase = "install" -> DefaultSrcInstall(s, ok)

-----------------------------------------------------------------------------
(***************************************************************************)
(* Errors, status and banned commands                                      *)
(***************************************************************************)
Die(s) ==
    IF s.nonfatalMode THEN False([s EXCEPT !.lastExitStatus = 1]) ELSE Fail(s)

\* Nothing but nonfatal and die ever records a status.
AssertStatus(s) == IF s.lastExitStatus # 0 THEN Die(s) ELSE s

BannedFrom == [dohard |-> 4, dosed |-> 4, useq |-> 5, einstall |-> 6, dohtml |-> 7,
               libopts |-> 7, hasv |-> 8, hasq |-> 8]
IsBannedCommand(cmd) == eapi >= BannedFrom[cmd]
\* useq, hasv and hasq still work before they are banned, the others do not.
OldCommand(s, cmd, holds) ==
    IF IsBannedCommand(cmd) \/ cmd \notin {"useq", "hasv", "hasq"} THEN Fail(s)
    ELSE IF holds THEN s ELSE False(s)

\* use, usev, in_iuse, has: a status and no other effect.
Test(s, holds) == IF holds THEN s ELSE False(s)

(***************************************************************************)
(* buildCommandMap.  A call c has a name, arguments, flag (-r, -R or -p),  *)
(* opts (a mode or options) and ok (what a program it starts will do, or   *)
(* whether a test holds).                                                  *)
(***************************************************************************)
InstallHelper(s, c) ==
    CASE c.cmd = "dobin" -> Dobin(s, c.args)
      [] c.cmd = "dosbin" -> Dosbin(s, c.args)
      [] c.cmd = "newbin" -> Newbin(s, c.args)
      [] c.cmd = "newsbin" -> Newsbin(s, c.args)
      [] c.cmd = "doexe" -> Doexe(s, c.args)
      [] c.cmd = "doins" -> Doins(s, c.args, c.flag)
      [] c.cmd = "newins" -> Newins(s, c.args)
      [] c.cmd = "dolib" -> Dolib(s, c.args)
      [] c.cmd = "dolib.so" -> DolibSo(s, c.args)
      [] c.cmd = "dolib.a" -> DolibA(s, c.args)
      [] c.cmd = "doheader" -> Doheader(s, c.args, c.flag)
      [] c.cmd = "doconfd" -> Doconfd(s, c.args, c.flag)
      [] c.cmd = "doenvd" -> Doenvd(s, c.args, c.flag)
      [] c.cmd = "doinitd" -> Doinitd(s, c.args)
      [] c.cmd = "dodoc" -> Dodoc(s, c.args, c.flag)
      [] c.cmd = "newdoc" -> Newdoc(s, c.args)
      [] c.cmd = "doman" -> Doman(s, c.args)
      [] c.cmd = "newman" -> Newman(s, c.args)
      [] c.cmd = "doinfo" -> Doinfo(s, c.args)
      [] c.cmd = "domo" -> Domo(s, c.args)

InstallHelpers == {"dobin", "dosbin", "newbin", "newsbin", "doexe", "doins", "newins", "dolib",
    "dolib.so", "dolib.a", "doheader", "doconfd", "doenvd", "doinitd", "dodoc", "newdoc", "doman",
    "newman", "doinfo", "domo"}

Command(s, c) ==
    CASE c.cmd \in InstallHelpers -> InstallHelper(s, c)
      [] c.cmd \in DOMAIN BannedFrom -> OldCommand(s, c.cmd, c.ok)
      [] c.cmd = "into" -> IntoTree(s, c.args)
      [] c.cmd = "insinto" -> Insinto(s, c.args)
      [] c.cmd = "exeinto" -> Exeinto(s, c.args)
      [] c.cmd = "docinto" -> Docinto(s, c.args)
      [] c.cmd = "insopts" -> Insopts(s, c.opts)
      [] c.cmd = "exeopts" -> Exeopts(s, c.opts)
      [] c.cmd = "diropts" -> Diropts(s, c.opts)
      [] c.cmd = "dodir" -> Dodir(s, c.args)
      [] c.cmd = "keepdir" -> Keepdir(s, c.args)
      [] c.cmd = "dosym" -> Dosym(s, c.args, c.flag)
      [] c.cmd = "fperms" -> Fperms(s, c.args, c.opts, c.flag)
      [] c.cmd = "einstalldocs" -> Einstalldocs(s)
      [] c.cmd = "default" -> Default(s, c.ok)
      [] c.cmd = "emake" -> Emake(s, c.ok, FALSE)
      [] c.cmd = "econf" -> Econf(s, c.ok)
      [] c.cmd = "unpack" -> Unpack(s, c.args, Archives)
      [] c.cmd = "eapply" -> Eapply(s, c.args)
      [] c.cmd = "eapply_user" -> EapplyUser(s)
      [] c.cmd = "sed" -> Sed(s, c.args, c.flag)
      [] c.cmd = "cat" -> Cat(s, c.args)
      [] c.cmd = "grep" -> Grep(s, Last(Head(c.args)), Tail(c.args))
      [] c.cmd = "mkdir" -> Mkdir(s, c.args, c.flag)
      [] c.cmd = "rm" -> Rm(s, c.args, c.flag, c.ok)
      [] c.cmd = "cp" -> Cp(s, Front(c.args), Last(c.args), c.flag)
      [] c.cmd = "mv" -> Mv(s, Front(c.args), Last(c.args))
      [] c.cmd = "chmod" -> Chmod(s, c.args, c.opts, c.flag)
      [] c.cmd = "ln" -> Ln(s, c.args, c.ok)
      [] c.cmd = "touch" -> Touch(s, c.args)
      [] c.cmd = "install" -> Install(s, c.args, c.opts.mode, c.flag)
      [] c.cmd = "use" -> Test(s, c.ok)
      [] c.cmd = "die" -> Die(s)
      [] c.cmd = "assert" -> AssertStatus(s)

\* The keys of buildCommandMap.
KnownCommands ==
    InstallHelpers \cup DOMAIN BannedFrom \cup
    {"into", "insinto", "exeinto", "docinto", "insopts", "exeopts", "diropts", "dodir", "keepdir",
     "dosym", "fperms", "einstalldocs", "default", "emake", "econf", "unpack", "eapply",
     "eapply_user", "sed", "cat", "grep", "mkdir", "rm", "cp", "mv", "chmod", "ln", "touch",
     "install", "use", "die", "assert", "cd"}

\* A script calls commands of buildCommandMap, with paths; cd, grep, cp and mv get
\* at least one.  Whatever is on the disk before is a tree.
ASSUME ScriptAssumption ==
    /\ Phases \subseteq {"unpack", "prepare", "configure", "compile", "test", "install"}
    /\ \A p \in Phases : \A c \in Menu[p] :
          /\ c.cmd \in KnownCommands /\ AllPaths(c.args)
          /\ c.cmd \in {"cd", "grep", "cp", "mv"} => c.args # <<>>
ASSUME TreeAssumption ==
    /\ IsTree(Tree) /\ IsTree(MakeInstalls)
    /\ AllPaths(Docs) /\ AllPaths(HtmlDocs) /\ AllPaths(StandardDocs)
    /\ AllPaths(A) /\ AllPaths(Patches) /\ IsSeq(UserPatches)
    /\ \A n \in DOMAIN Archives : IsSeq(Archives[n]) /\ \A i \in DOMAIN Archives[n] :
          LET m == Archives[n][i] IN
          IsSeq(m.path) /\ IsNode(m.node) /\ m.node.kind \in {"dir", "file", "link"}

Stdin == <<"-">>

\* The interpreter itself looks at new* with standard input, and cd is the
\* shell's own.
execHandler(s, c) ==
    CASE c.cmd \in {"newins", "newdoc", "newman"} /\ c.args[1] = Stdin ->
            NewinsFromStdin(s, c.cmd, Last(c.args[2]))
      [] c.cmd = "cd" -> LET dir == resolvePath(s, c.args[1]) IN
                         IF IsDir(s.fs, dir) THEN [s EXCEPT !.cwd = dir] ELSE False(s)
      [] OTHER -> Command(s, c)

\* nonfatal runs commands of the map only: cd is not found there.
dispatchCommand(s, c) == IF c.cmd = "cd" THEN False(s) ELSE Command(s, c)

\* Mutant: nonfatal mode is left only when the command succeeds.
AfterNonfatal_StaysOn(r) ==
    IF Ok(r) THEN [r EXCEPT !.nonfatalMode = FALSE, !.lastExitStatus = 0]
    ELSE [r EXCEPT !.lastExitStatus = 1, !.err = "false"]

\* What nonfatal makes of the result of its command.
AfterNonfatal(r) ==
    IF Ok(r) THEN [r EXCEPT !.nonfatalMode = FALSE, !.lastExitStatus = 0]
    ELSE [r EXCEPT !.nonfatalMode = FALSE, !.lastExitStatus = 1, !.err = "false"]

Nonfatal(s, c) ==
    IF eapi < 4 THEN Fail(s)
    ELSE AfterNonfatal(dispatchCommand([s EXCEPT !.nonfatalMode = TRUE], c))

-----------------------------------------------------------------------------
(***************************************************************************)
(* History: what the script asked for, and what it may rely on.            *)
(***************************************************************************)
Asked(c) ==
    CASE c.cmd = "insinto" /\ c.args # <<>> -> [told EXCEPT !.ins = c.args[1]]
      [] c.cmd = "exeinto" /\ c.args # <<>> -> [told EXCEPT !.exe = c.args[1]]
      [] c.cmd = "docinto" -> [told EXCEPT !.doc = IF c.args = <<>> THEN <<>> ELSE c.args[1]]
      [] c.cmd = "into" /\ Len(c.args) = 1 ->
            [told EXCEPT !.dest = IF c.args[1] = <<>> THEN <<"usr">> ELSE c.args[1]]
      [] OTHER -> told

\* The directory of the image that the documentation of a helper names, as
\* the script set it, for a file of that name.
Home(cmd, name) ==
    CASE cmd \in {"dobin", "newbin"} -> told.dest \o <<"bin">>
      [] cmd \in {"dosbin", "newsbin"} -> told.dest \o <<"sbin">>
      [] cmd \in {"dolib", "dolib.so", "dolib.a"} -> told.dest \o <<"lib64">>
      [] cmd = "doexe" -> told.exe
      [] cmd \in {"doins", "newins"} -> told.ins
      [] cmd = "doheader" -> <<"usr", "include">> \o
            (IF told.ins = <<"usr">> THEN <<>>
             ELSE IF IsPrefix(<<"usr", "include">>, told.ins) THEN SubSeq(told.ins, 3, Len(told.ins))
             ELSE told.ins)
      [] cmd = "doconfd" -> <<"etc", "conf.d">>
      [] cmd = "doenvd" -> <<"etc", "env.d">>
      [] cmd = "doinitd" -> <<"etc", "init.d">>
      [] cmd \in {"dodoc", "newdoc"} -> <<"usr", "share", "doc", "PF">> \o told.doc
      [] cmd \in {"doman", "newman"} -> <<"usr", "share", "man", IF name \in DOMAIN Ext THEN Ext[name] ELSE "1">>
      [] cmd = "doinfo" -> <<"usr", "share", "info">>
      [] cmd = "domo" -> (IF eapi >= 7 THEN <<"usr">> ELSE told.dest)
                            \o <<"share", "locale", Stem[name], "LC">>

\* The files a call of an install helper is about: triples of the position
\* of the argument, the place in the image and the content.
Renames == {"newbin", "newsbin", "newins", "newdoc", "newman"}
Deliveries(c) ==
    LET name(i) == IF c.cmd \in Renames THEN Last(c.args[2]) ELSE Last(c.args[i])
        as(i) == IF c.cmd = "domo" THEN "PN.mo" ELSE name(i)
        given == IF c.cmd \in Renames THEN {1} ELSE DOMAIN c.args
        place(i) == InImage(Append(Home(c.cmd, name(i)), as(i)))
        src(i) == resolveSourcePath(c.args[i])
    IN IF c.args # <<>> /\ c.args[1] = Stdin THEN {<<1, place(1), <<"stdin">>>>}
       ELSE UNION {{<<i, Moved(p, src(i), place(i)), st.fs[p].data>> :
                        p \in {q \in {src(i)} \cup Below(st.fs, src(i)) :
                                    q \in DOMAIN st.fs /\ st.fs[q].kind = "file"}} : i \in given}

\* A call, even one that fails, is about the places it delivers to; the
\* script's own tools are about whatever they change.  Where the script has
\* put a link, a helper writes through it, and nothing is promised.
Promises(c, s) ==
    LET due == IF c.cmd \in InstallHelpers THEN Deliveries(c) ELSE {}
        places == {d[2] : d \in due}
        touched == IF c.cmd \in InstallHelpers
                   THEN places \cup {Follow(st.fs, p) : p \in places}
                   ELSE {p \in DOMAIN promised : p \notin DOMAIN s.fs \/ s.fs[p] # st.fs[p]}
        kept == Without(promised, {p \in DOMAIN promised : {p, Follow(st.fs, p)} \cap touched # {}})
        final(p) == (CHOOSE d \in due : d[2] = p /\ \A e \in due : e[2] = p => e[1] <= d[1])[3]
        own == {p \in places : p \notin DOMAIN st.fs \/ st.fs[p].kind # "link"}
    IN IF Ok(s) THEN Over([p \in own |-> final(p)], kept) ELSE kept

-----------------------------------------------------------------------------
Init ==
    /\ phase \in Phases
    /\ eapi \in EAPIs
    /\ st = Over([fs |-> Tree, err |-> "none", left |-> 0,
                  cwd |-> IF phase = "unpack" THEN <<"W">> ELSE <<"S">>], NewHelpers)
    /\ calls = 0 /\ faults = 0 /\ pc = "running"
    /\ told = Destinations(NewHelpers)
    /\ promised = <<>>
    /\ fatal = FALSE

\* What follows a command: an error ends the script, a status does not,
\* unless the script says || die.
Done(c, s, plain, orDie) ==
    LET end == IF orDie /\ s.err = "false" THEN Die([s EXCEPT !.err = "none"]) ELSE s IN
    /\ st' = [end EXCEPT !.err = "none", !.left = 0]
    /\ pc' = IF end.err = "die" THEN "failed" ELSE "running"
    /\ calls' = calls + 1
    /\ told' = IF plain \/ eapi >= 4 THEN Asked(c) ELSE told
    /\ promised' = Promises(c, s)
    /\ fatal' = (fatal \/ (plain /\ c.cmd = "die") \/ (orDie /\ ~Ok(s)))
    /\ UNCHANGED <<phase, eapi>>

\* The n-th write of the command fails, if there is one; 0: none does.
WithFault(n) == [st EXCEPT !.left = n]
FaultHappened(n, s) ==
    /\ n > 0 => s.left = 0
    /\ faults' = IF n > 0 THEN faults + 1 ELSE faults
Writes == IF faults < MaxFaults THEN 0..MaxWrites ELSE {0}

Call == pc = "running" /\ calls < MaxCalls

RunCommand == \E c \in Menu[phase], n \in Writes :
    Call /\ \E s \in {execHandler(WithFault(n), c)} :
        FaultHappened(n, s) /\ \E orDie \in BOOLEAN : Done(c, s, TRUE, orDie)

RunNonfatal == \E c \in Menu[phase], n \in Writes :
    Call /\ \E s \in {Nonfatal(WithFault(n), c)} :
        FaultHappened(n, s) /\ \E orDie \in BOOLEAN : Done(c, s, FALSE, orDie)

\* The combined script ends with true: no status makes the phase fail.
EndPhase ==
    /\ pc = "running"
    /\ pc' = "succeeded"
    /\ UNCHANGED <<st, phase, eapi, calls, faults, told, promised, fatal>>

Next == RunCommand \/ RunNonfatal \/ EndPhase

Spec == Init /\ [][Next]_vars

-----------------------------------------------------------------------------
(***************************************************************************)
(* Whatever helpers ran before, with or without success, doins, doexe,     *)
(* dobin and dodoc go where the script last said (insinto, exeinto, into,  *)
(* docinto): doconfd, doenvd and einstalldocs, which borrow the            *)
(* destination of doins and dodoc, always give it back.                    *)
(***************************************************************************)
DestinationsAsTold == Destinations(st) = told

(***************************************************************************)
(* A helper that returned without error has put its files where its        *)
(* documentation says, and they stay there with that content until the     *)
(* script itself changes them: no later helper, no failed or nonfatal one  *)
(* and no failed write takes them away, and no error is passed over.       *)
(***************************************************************************)
DeliveredStays ==
    \A p \in DOMAIN promised :
        IsFile(st.fs, p) /\ st.fs[Follow(st.fs, p)].data = promised[p]

(***************************************************************************)
(* A phase in which die was called outside nonfatal, or a failed command   *)
(* was followed by || die, never goes on and never succeeds, however many  *)
(* nonfatal commands came before (PMS 12.3.1).                             *)
(***************************************************************************)
DieEndsPhase == fatal => pc = "failed"
=============================================================================
